---- MODULE Spec2Model ----
(***************************************************************************)
(* Direct-operating-cost tool (AEA 1989a/b method): src/cost_tool.py and   *)
(* its callers.                                                            *)
(*                                                                         *)
(* Numbers.  The program computes with Python floats (IEEE binary64).     *)
(* They are modelled as decimal floating-point numbers of FloatFormat     *)
(* significant digits: a value is [m |-> mantissa, e |-> exponent] and     *)
(* stands for m * 10^e, with 1000 <= |m| <= 9999 or m = 0.  Every          *)
(* arithmetic operation rounds its exact result to the nearest             *)
(* representable value, as a float operation does, so that rounding        *)
(* effects ((a / n) * n # a, a/n + b/n # (a+b)/n) exist in the model as    *)
(* they do in the program.  Overflow to inf and NaN are outside the model: *)
(* the exponent is unbounded.                                              *)
(*                                                                         *)
(* Exceptions.  A Python expression that raises is modelled by the value   *)
(* [exc |-> <exception type>]; every operation propagates the exception of *)
(* its leftmost raising operand, which is Python's evaluation order.       *)
(***************************************************************************)
EXTENDS Integers, Sequences, FiniteSets, TLC

\* ------------------------------------------------------------------------
\* Floating-point layer
\* ------------------------------------------------------------------------

FloatFormat == [digits |-> 4, lo |-> 1000, hi |-> 9999]

Abs(n) == IF n < 0 THEN -n ELSE n

Sgn(n) == IF n < 0 THEN -1 ELSE IF n = 0 THEN 0 ELSE 1

Pow10(k) == <<1, 10, 100, 1000, 10000, 100000, 1000000, 10000000, 100000000, 1000000000>>[k + 1]

\* number of decimal digits of n >= 1
NumDigits(n) ==
    IF n < 10 THEN 1 ELSE IF n < 100 THEN 2 ELSE IF n < 1000 THEN 3
    ELSE IF n < 10000 THEN 4 ELSE IF n < 100000 THEN 5 ELSE IF n < 1000000 THEN 6
    ELSE IF n < 10000000 THEN 7 ELSE IF n < 100000000 THEN 8
    ELSE IF n < 1000000000 THEN 9 ELSE 10

Raise(kind) == [exc |-> kind]

IsExc(v) == "exc" \in DOMAIN v

\* the outcome of a function body whose statements, in program order, gave
\* the values stmts and whose return expression gives value: the exception of
\* the first statement that raised, else value
RECURSIVE FirstRaised(_, _)
FirstRaised(stmts, value) ==
    IF stmts = <<>> THEN value
    ELSE IF IsExc(Head(stmts)) THEN Head(stmts)
    ELSE FirstRaised(Tail(stmts), value)

Body(stmts, value) == FirstRaised(stmts, value)

\* the float nearest to m * 10^e (ties away from zero)
Norm(m, e) ==
    IF m = 0 THEN [m |-> 0, e |-> 0]
    ELSE LET a == Abs(m)
             d == NumDigits(a)
         IN  IF d <= FloatFormat.digits
             THEN [m |-> m * Pow10(FloatFormat.digits - d), e |-> e - (FloatFormat.digits - d)]
             ELSE LET k == d - FloatFormat.digits
                      p == Pow10(k)
                      q == (a \div p) + (IF 2 * (a % p) >= p THEN 1 ELSE 0)
                  IN  IF q > FloatFormat.hi
                      THEN [m |-> Sgn(m) * FloatFormat.lo, e |-> e + k + 1]
                      ELSE [m |-> Sgn(m) * q, e |-> e + k]

\* a float literal, or the float of an int
F(m, e) == Norm(m, e)

FInt(n) == Norm(n, 0)

Zero == F(0, 0)

One == F(1, 0)

FNeg(a) == IF IsExc(a) THEN a ELSE [m |-> -a.m, e |-> a.e]

FAdd(a, b) ==
    IF IsExc(a) THEN a ELSE IF IsExc(b) THEN b
    ELSE IF a.m = 0 THEN b ELSE IF b.m = 0 THEN a
    ELSE LET hi == IF a.e >= b.e THEN a ELSE b
             lo == IF a.e >= b.e THEN b ELSE a
             d  == hi.e - lo.e
         IN  IF d > 5 THEN hi
             ELSE Norm(hi.m * Pow10(d) + lo.m, lo.e)

FSub(a, b) == FAdd(a, FNeg(b))

FMul(a, b) ==
    IF IsExc(a) THEN a ELSE IF IsExc(b) THEN b
    ELSE Norm(a.m * b.m, a.e + b.e)

\* Python's float and int division raise on a zero divisor
FDiv(a, b) ==
    IF IsExc(a) THEN a ELSE IF IsExc(b) THEN b
    ELSE IF b.m = 0 THEN Raise("ZeroDivisionError")
    ELSE LET n == Abs(a.m) * Pow10(5)
             q == n \div Abs(b.m)
         IN  Norm(Sgn(a.m) * Sgn(b.m) * q, a.e - b.e - 5)

FIsZero(a) == a.m = 0

FIsNeg(a) == a.m < 0

FLe(a, b) == FSub(a, b).m <= 0

FLt(a, b) == FSub(a, b).m < 0

FAbs(a) == [m |-> Abs(a.m), e |-> a.e]

\* x ** n for an int n (float ** int)
FSquare(a) == FMul(a, a)

RECURSIVE FPowNat(_, _)
FPowNat(x, n) ==
    IF n = 0 THEN One
    ELSE IF n = 1 THEN x
    ELSE IF n % 2 = 0 THEN FSquare(FPowNat(x, n \div 2))
    ELSE FMul(FSquare(FPowNat(x, n \div 2)), x)

FPowInt(x, n) ==
    IF IsExc(x) THEN x
    ELSE IF n >= 0 THEN FPowNat(x, n)
    ELSE IF x.m = 0 THEN Raise("ZeroDivisionError")
    ELSE FDiv(One, FPowNat(x, -n))

\* the int nearest to a float of small magnitude
FRound(a) ==
    IF a.e >= 0 THEN a.m * Pow10(a.e)
    ELSE IF -a.e > 8 THEN 0
    ELSE LET p == Pow10(-a.e)
         IN  Sgn(a.m) * ((Abs(a.m) \div p) + (IF 2 * (Abs(a.m) % p) >= p THEN 1 ELSE 0))

Ln2 == F(6931, -4)

Ln10 == F(2303, -3)

\* 2 z (1 + z2/3 + z2^2/5 + z2^3/7) with z2 = z^2: the series of ln((1+z)/(1-z))
LnTerms(z, z2) ==
    FMul(FMul(FInt(2), z),
         FAdd(One, FMul(z2, FAdd(FDiv(One, FInt(3)), FMul(z2, FAdd(FDiv(One, FInt(5)), FDiv(z2, FInt(7))))))))

LnOdd(z) == LnTerms(z, FMul(z, z))

\* ln u for 1 <= u < 2, with z = (u-1)/(u+1)
LnSeries(u) == LnOdd(FDiv(FSub(u, One), FAdd(u, One)))

\* ln x for x = u * 2^k * 10^j with 1 <= u < 2
LnScaled(x, k) ==
    FAdd(FAdd(LnSeries(FDiv([m |-> x.m, e |-> -3], FPowNat(FInt(2), k))), FMul(FInt(k), Ln2)),
         FMul(FInt(x.e + 3), Ln10))

\* ln x for x > 0
FLn(x) == LnScaled(x, IF x.m >= 8000 THEN 3 ELSE IF x.m >= 4000 THEN 2 ELSE IF x.m >= 2000 THEN 1 ELSE 0)

\* exp r for |r| <= ln(2)/2, by its Taylor series to the fifth power
ExpSeries(r) ==
    FAdd(One, FMul(r, FAdd(One, FMul(FDiv(r, FInt(2)), FAdd(One, FMul(FDiv(r, FInt(3)),
         FAdd(One, FMul(FDiv(r, FInt(4)), FAdd(One, FDiv(r, FInt(5)))))))))))

\* exp t for t = k ln 2 + r
ExpScaled(t, k) == FMul(ExpSeries(FSub(t, FMul(FInt(k), Ln2))), FPowInt(FInt(2), k))

FExp(t) == ExpScaled(t, FRound(FDiv(t, Ln2)))

\* x ** y for a float exponent y > 0 and x >= 0 (a negative x gives a complex
\* number in Python; the inputs of the model keep x >= 0)
FPow(x, y) ==
    IF IsExc(x) THEN x ELSE IF IsExc(y) THEN y
    ELSE IF x.m = 0 THEN Zero
    ELSE IF x = One THEN One
    ELSE FExp(FMul(y, FLn(x)))

None == [none |-> TRUE]

IsNone(v) == "none" \in DOMAIN v

\* ------------------------------------------------------------------------
\* cost_tool.py: pricing
\* ------------------------------------------------------------------------

estimate_engine_price(takeoff_thrust_per_engine_N) ==
    FMul(FInt(293), FPow(takeoff_thrust_per_engine_N, F(81, -2)))

\* the purchase price (delivery and spares) by operational empty weight: one
\* correlation from 10000 kg on, another below
estimate_purchase_price_from_oew(operational_empty_weight_kg) ==
    IF FLe(FInt(10000), operational_empty_weight_kg)
    THEN FMul(F(1, 6), FSub(FMul(F(118, -2), FPow(operational_empty_weight_kg, F(48, -2))), FInt(116)))
    ELSE FSub(FAdd(FMul(F(-2695, -6), FPowInt(operational_empty_weight_kg, 2)),
                   FMul(FInt(1967), operational_empty_weight_kg)),
              FInt(2158000))

\* variant: the engine spares left out of the numerator
DeliveryPriceWithoutEngineTerm(operational_empty_weight_kg, engine_price_usd, engine_count, airframe_spares_factor, engine_spares_factor) ==
    FDiv(estimate_purchase_price_from_oew(operational_empty_weight_kg), FAdd(One, airframe_spares_factor))

\* the delivery price solved from the purchase price:
\* (P_total - n_E x P_E x (k_s_E - k_s_AF)) / (1 + k_s_AF)
calculate_delivery_price_from_oew(operational_empty_weight_kg, engine_price_usd, engine_count, airframe_spares_factor, engine_spares_factor) ==
    FDiv(FSub(estimate_purchase_price_from_oew(operational_empty_weight_kg),
              FMul(FMul(FInt(engine_count), engine_price_usd),
                   FSub(engine_spares_factor, airframe_spares_factor))),
         FAdd(One, airframe_spares_factor))

\* variant: a negative airframe price clamped to zero
ClampedAirframePrice(delivery_price_usd, engine_price_usd, engine_count) ==
    IF FIsNeg(FSub(delivery_price_usd, FMul(FInt(engine_count), engine_price_usd)))
    THEN Zero
    ELSE FSub(delivery_price_usd, FMul(FInt(engine_count), engine_price_usd))

calculate_airframe_price(delivery_price_usd, engine_price_usd, engine_count) ==
    FSub(delivery_price_usd, FMul(FInt(engine_count), engine_price_usd))

\* variant: the engine spares subtracted instead of added
SparesPriceSignError(engine_price_usd, engine_count, airframe_price_usd, airframe_spares_factor, engine_spares_factor) ==
    FSub(FMul(airframe_price_usd, airframe_spares_factor),
         FMul(FMul(engine_price_usd, FInt(engine_count)), engine_spares_factor))

calculate_spares_price(engine_price_usd, engine_count, airframe_price_usd, airframe_spares_factor, engine_spares_factor) ==
    LET P_s_af == FMul(airframe_price_usd, airframe_spares_factor)
        P_s_e  == FMul(FMul(engine_price_usd, FInt(engine_count)), engine_spares_factor)
    IN  FAdd(P_s_af, P_s_e)

\* variant: the spares left out of the purchase price
PurchasePriceWithoutSpares(delivery_price_usd, spares_price_usd) == delivery_price_usd

calculate_purchase_price(delivery_price_usd, spares_price_usd) ==
    FAdd(delivery_price_usd, spares_price_usd)

\* ------------------------------------------------------------------------
\* cost_tool.py: cost categories
\* ------------------------------------------------------------------------

calculate_depreciation(purchase_price_usd, residual_value_fraction, depreciation_period_years) ==
    FDiv(FMul(purchase_price_usd, FSub(One, residual_value_fraction)), FInt(depreciation_period_years))

\* p_av, from q = 1 + interest_rate and qn = q ** repayment_period_years
AverageInterest(q, qn, repayment_period_years, depreciation_period_years, balloon_fraction) ==
    FSub(FMul(FDiv(FMul(FSub(qn, balloon_fraction), FSub(q, One)), FSub(qn, One)),
              FDiv(FInt(repayment_period_years), FInt(depreciation_period_years))),
         FDiv(FSub(One, balloon_fraction), FInt(depreciation_period_years)))

InterestFromGrowth(purchase_price_usd, q, repayment_period_years, depreciation_period_years, balloon_fraction) ==
    FMul(purchase_price_usd,
         AverageInterest(q, FPowInt(q, repayment_period_years), repayment_period_years,
                         depreciation_period_years, balloon_fraction))

calculate_interest(purchase_price_usd, interest_rate, repayment_period_years, depreciation_period_years, balloon_fraction) ==
    InterestFromGrowth(purchase_price_usd, FAdd(One, interest_rate), repayment_period_years,
                       depreciation_period_years, balloon_fraction)

calculate_insurance(delivery_price_usd, insurance_factor) ==
    FMul(delivery_price_usd, insurance_factor)

\* a fuel cost that is not multiplied by the flights of a year
FuelOfOneFlight(fuel_weight_kg, fuel_price_usd_per_kg, flights_per_year) ==
    FMul(fuel_weight_kg, fuel_price_usd_per_kg)

calculate_fuel(fuel_weight_kg, fuel_price_usd_per_kg, flights_per_year) ==
    FMul(FMul(fuel_weight_kg, fuel_price_usd_per_kg), FInt(flights_per_year))

calculate_installed_engine_weight(installed_engine_factor, installed_engine_reverse_factor, engine_weight_kg, engine_count) ==
    FMul(FMul(FMul(installed_engine_factor, installed_engine_reverse_factor), engine_weight_kg), FInt(engine_count))

calculate_airframe_weight(operational_empty_weight_kg, installed_engine_weight_kg) ==
    FSub(operational_empty_weight_kg, installed_engine_weight_kg)

calculate_inflation_factor(inflation_rate, target_year, reference_year) ==
    FPowInt(FAdd(One, inflation_rate), target_year - reference_year)

\* a match statement whose case _ falls back on the twin-shaft value
ShaftFactorWithDefault(engine_shafts) ==
    CASE engine_shafts = 1 -> F(5, -1)
      [] engine_shafts = 3 -> F(64, -2)
      [] OTHER -> F(57, -2)

\* the match statement on engine_shafts: k4, or the ValueError of case _
ShaftFactor(engine_shafts) ==
    CASE engine_shafts = 1 -> F(5, -1)
      [] engine_shafts = 2 -> F(57, -2)
      [] engine_shafts = 3 -> F(64, -2)
      [] OTHER -> Raise("ValueError")

\* the engine labor-hour and material-cost base coefficients of the code
EngineLaborBase == F(17, -2)

EngineMaterialBase == FInt(2)

\* the statements after k4: k3, the engine labor hours and material cost per
\* flight, and the total
MaintenanceTotal(flight_time_hours, compressor_stages, takeoff_thrust_per_engine_N, engine_count, flights_per_year, labor_rate_usd_per_hour, inflation_factor, t_M_AF_f, C_M_M_AF_f, k1, k2, k3, k4) ==
    LET t_M_E_f   == FMul(FMul(FMul(FMul(FMul(FInt(engine_count), EngineLaborBase), k1), k3),
                               FPow(FAdd(One, FMul(F(102, -6), takeoff_thrust_per_engine_N)), F(4, -1))),
                          FAdd(One, FDiv(F(13, -1), flight_time_hours)))
        C_M_M_E_f == FMul(FMul(FMul(FMul(FMul(FMul(FInt(engine_count), EngineMaterialBase), k1), FAdd(k2, k3)),
                                    FPow(FAdd(One, FMul(F(102, -6), takeoff_thrust_per_engine_N)), F(8, -1))),
                               FAdd(One, FDiv(F(13, -1), flight_time_hours))),
                          inflation_factor)
        total     == FMul(FMul(FAdd(FAdd(FMul(FAdd(t_M_AF_f, t_M_E_f), labor_rate_usd_per_hour), C_M_M_AF_f), C_M_M_E_f),
                               flight_time_hours),
                          FInt(flights_per_year))
    IN  Body(<<t_M_AF_f, C_M_M_AF_f, k1, k2, k4, k3>>, total)

\* the statements after the airframe terms and k1, k2, k4
MaintenanceEngine(flight_time_hours, compressor_stages, takeoff_thrust_per_engine_N, engine_count, flights_per_year, labor_rate_usd_per_hour, inflation_factor, t_M_AF_f, C_M_M_AF_f, k1, k2, k4) ==
    MaintenanceTotal(flight_time_hours, compressor_stages, takeoff_thrust_per_engine_N, engine_count,
                     flights_per_year, labor_rate_usd_per_hour, inflation_factor,
                     t_M_AF_f, C_M_M_AF_f, k1, k2,
                     FAdd(FMul(F(32, -3), FInt(compressor_stages)), k4), k4)

calculate_maintenance(flight_time_hours, airframe_weight_kg, airframe_price_usd, bypass_ratio, overall_pressure_ratio, compressor_stages, engine_shafts, takeoff_thrust_per_engine_N, engine_count, flights_per_year, labor_rate_usd_per_hour, inflation_factor) ==
    MaintenanceEngine(flight_time_hours, compressor_stages, takeoff_thrust_per_engine_N, engine_count,
                      flights_per_year, labor_rate_usd_per_hour, inflation_factor,
                      \* t_M_AF_f
                      FMul(FMul(FDiv(One, flight_time_hours),
                                FSub(FAdd(FMul(F(9, -5), airframe_weight_kg), F(67, -1)),
                                     FDiv(FInt(350000), FAdd(airframe_weight_kg, FInt(75000))))),
                           FAdd(F(8, -1), FMul(F(68, -2), flight_time_hours))),
                      \* C_M_M_AF_f
                      FMul(FMul(FDiv(One, flight_time_hours),
                                FAdd(F(42, -7), FMul(F(22, -7), flight_time_hours))),
                           airframe_price_usd),
                      \* k1
                      FSub(F(127, -2), FMul(F(2, -1), FPow(bypass_ratio, F(2, -1)))),
                      \* k2
                      FAdd(FDiv(FMul(F(4, -1), FPow(overall_pressure_ratio, F(13, -1))), FInt(20)), F(4, -1)),
                      \* k4
                      ShaftFactor(engine_shafts))

calculate_crew(block_time_hours, flights_per_year, cockpit_crew_count, cabin_crew_count, cockpit_crew_rate_usd_per_hour, cabin_crew_rate_usd_per_hour) ==
    FMul(FMul(FAdd(FMul(FInt(cockpit_crew_count), cockpit_crew_rate_usd_per_hour),
                   FMul(FInt(cabin_crew_count), cabin_crew_rate_usd_per_hour)),
              block_time_hours),
         FInt(flights_per_year))

calculate_fees_and_charges(maximum_takeoff_weight_kg, payload_weight_kg, range_nm, flights_per_year, landing_fee_factor, navigation_fee_factor, ground_handling_factor, inflation_factor) ==
    LET C_FEE_LD  == FMul(FMul(FMul(landing_fee_factor, maximum_takeoff_weight_kg),
                               FInt(flights_per_year)), inflation_factor)
        C_FEE_NAV == FMul(FMul(FMul(FMul(navigation_fee_factor, range_nm),
                                    FPow(maximum_takeoff_weight_kg, F(5, -1))),
                               FInt(flights_per_year)), inflation_factor)
        C_FEE_GND == FMul(FMul(FMul(ground_handling_factor, payload_weight_kg),
                               FInt(flights_per_year)), inflation_factor)
    IN  FAdd(FAdd(C_FEE_LD, C_FEE_NAV), C_FEE_GND)

\* ------------------------------------------------------------------------
\* cost_tool.py: calculate_costs
\* ------------------------------------------------------------------------

\* reference years of the inflation factors
GeneralReferenceYear == 1989

EngineReferenceYear == 1999

DeliveryReferenceYear == 1999

\* USD per kg of operational empty weight, the delivery-price correlation
DeliveryPricePerKg == 860

\* the baseline year the docstring and the comment of calculate_costs give for
\* the delivery-price estimate
DocumentedDeliveryBaselineYear == 2010

CostBreakdown(depreciation, interest, insurance, fuel, maintenance, crew, fees_and_charges, total) ==
    [depreciation |-> depreciation, interest |-> interest, insurance |-> insurance,
     fuel |-> fuel, maintenance |-> maintenance, crew |-> crew,
     fees_and_charges |-> fees_and_charges, total |-> total]

\* variant: a supplied engine price inflated like an estimated one
InflatedEnginePrice(aircraft, params, target_year) ==
    FMul(IF ~IsNone(aircraft.engine_price_usd)
         THEN aircraft.engine_price_usd
         ELSE estimate_engine_price(aircraft.takeoff_thrust_per_engine_N),
         calculate_inflation_factor(params.inflation_rate, target_year, EngineReferenceYear))

\* phase 1, engine price: supplied, or estimated from thrust and inflated
ResolveEnginePrice(aircraft, params, target_year) ==
    IF ~IsNone(aircraft.engine_price_usd)
    THEN aircraft.engine_price_usd
    ELSE LET engine_price_1999 == estimate_engine_price(aircraft.takeoff_thrust_per_engine_N)
             engine_inflation  == calculate_inflation_factor(params.inflation_rate, target_year, EngineReferenceYear)
         IN  FMul(engine_price_1999, engine_inflation)

\* variant: the engines' spares share of a supplied engine price taken off the
\* delivery price, estimated or supplied
DeliveryPriceLessEngineSpares(aircraft, params, target_year) ==
    FSub(IF ~IsNone(aircraft.aircraft_delivery_price_usd)
         THEN aircraft.aircraft_delivery_price_usd
         ELSE FMul(FMul(FInt(DeliveryPricePerKg), aircraft.operational_empty_weight_kg),
                   calculate_inflation_factor(params.inflation_rate, target_year, DeliveryReferenceYear)),
         IF ~IsNone(aircraft.engine_price_usd)
         THEN FMul(FMul(FInt(aircraft.engine_count), aircraft.engine_price_usd), params.engine_spares_factor)
         ELSE Zero)

\* phase 1, delivery price: supplied, or estimated from OEW and inflated
ResolveDeliveryPrice(aircraft, params, target_year) ==
    IF ~IsNone(aircraft.aircraft_delivery_price_usd)
    THEN aircraft.aircraft_delivery_price_usd
    ELSE LET delivery_price_1999 == FMul(FInt(DeliveryPricePerKg), aircraft.operational_empty_weight_kg)
             delivery_inflation  == calculate_inflation_factor(params.inflation_rate, target_year, DeliveryReferenceYear)
         IN  FMul(delivery_price_1999, delivery_inflation)

\* variant: the interest left out of the total
TotalWithoutInterest(depreciation, interest, insurance, fuel, maintenance, crew, fees_and_charges) ==
    FAdd(FAdd(FAdd(FAdd(FAdd(depreciation, insurance), fuel), maintenance), crew), fees_and_charges)

\* phase 5: the sum of the seven annual categories, left to right
TotalAnnual(depreciation, interest, insurance, fuel, maintenance, crew, fees_and_charges) ==
    FAdd(FAdd(FAdd(FAdd(FAdd(FAdd(depreciation, interest), insurance), fuel), maintenance), crew), fees_and_charges)

\* variant: the crew cost copied from the annual breakdown, not divided
NormalizeAllButCrew(annual, divisor) ==
    IF divisor.m = 0 THEN Raise("ZeroDivisionError")
    ELSE CostBreakdown(FDiv(annual.depreciation, divisor), FDiv(annual.interest, divisor),
                       FDiv(annual.insurance, divisor), FDiv(annual.fuel, divisor),
                       FDiv(annual.maintenance, divisor), annual.crew,
                       FDiv(annual.fees_and_charges, divisor), FDiv(annual.total, divisor))

\* phase 5: a breakdown with every field of the annual one divided by the
\* same divisor; the first division raises when the divisor is zero
Normalize(annual, divisor) ==
    IF divisor.m = 0 THEN Raise("ZeroDivisionError")
    ELSE CostBreakdown(FDiv(annual.depreciation, divisor), FDiv(annual.interest, divisor),
                       FDiv(annual.insurance, divisor), FDiv(annual.fuel, divisor),
                       FDiv(annual.maintenance, divisor), FDiv(annual.crew, divisor),
                       FDiv(annual.fees_and_charges, divisor), FDiv(annual.total, divisor))

PricingBreakdown(engine_price_usd, delivery_price_usd, airframe_price_usd, spares_price_usd, purchase_price_usd) ==
    [engine_price_usd |-> engine_price_usd, delivery_price_usd |-> delivery_price_usd,
     airframe_price_usd |-> airframe_price_usd, spares_price_usd |-> spares_price_usd,
     purchase_price_usd |-> purchase_price_usd]

\* phase 6: the DOCResult, once both normalisations went through
DOCResult(prices, annual_costs, per_flight_costs, per_hour_costs) ==
    Body(<<per_flight_costs, per_hour_costs>>,
         [prices |-> prices, annual |-> annual_costs,
          per_flight |-> per_flight_costs, per_hour |-> per_hour_costs])

\* phase 5: per-flight and per-flight-hour breakdowns of the annual one
NormalizeCosts(aircraft, prices, annual_costs) ==
    DOCResult(prices, annual_costs,
              Normalize(annual_costs, FInt(aircraft.flights_per_year)),
              Normalize(annual_costs, FMul(FInt(aircraft.flights_per_year), aircraft.flight_time_hours)))

\* phase 5: the annual breakdown of the seven categories computed in
\* phases 3 and 4, in the order the code computes them
AggregateCosts(aircraft, prices, depreciation, interest, insurance, fuel, maintenance, crew, fees_and_charges) ==
    Body(<<depreciation, interest, insurance, fuel, maintenance, crew, fees_and_charges>>,
         NormalizeCosts(aircraft, prices,
                        CostBreakdown(depreciation, interest, insurance, fuel, maintenance, crew, fees_and_charges,
                                      TotalAnnual(depreciation, interest, insurance, fuel, maintenance, crew, fees_and_charges))))

\* phases 3 and 4: fixed and variable costs from the resolved prices and the
\* airframe weight
CostsFromPrices(aircraft, params, inflation_factor, prices, airframe_weight_kg) ==
    AggregateCosts(aircraft, prices,
        calculate_depreciation(prices.purchase_price_usd, params.depreciation_relative_residual,
                               params.depreciation_period_years),
        calculate_interest(prices.purchase_price_usd, params.interest_rate, params.repayment_period_years,
                           params.depreciation_period_years, params.balloon_fraction),
        calculate_insurance(prices.delivery_price_usd, params.insurance_factor),
        calculate_fuel(aircraft.fuel_weight_kg, params.fuel_price_usd, aircraft.flights_per_year),
        calculate_maintenance(aircraft.flight_time_hours, airframe_weight_kg, prices.airframe_price_usd,
                              aircraft.bypass_ratio, aircraft.overall_pressure_ratio,
                              aircraft.compressor_stages, aircraft.engine_shafts,
                              aircraft.takeoff_thrust_per_engine_N, aircraft.engine_count,
                              aircraft.flights_per_year,
                              FMul(params.labor_rate_usd_per_hour, inflation_factor), inflation_factor),
        calculate_crew(aircraft.block_time_hours, aircraft.flights_per_year,
                       aircraft.cockpit_crew_count, aircraft.cabin_crew_count,
                       params.cockpit_crew_rate_usd_per_hour, params.cabin_crew_rate_usd_per_hour),
        calculate_fees_and_charges(aircraft.maximum_takeoff_weight_kg, aircraft.payload_weight_kg,
                                   aircraft.range_nm, aircraft.flights_per_year,
                                   params.landing_fee_factor, params.navigation_fee_factor,
                                   params.ground_handling_factor, inflation_factor))

\* phase 1, from the airframe price on: spares and purchase price
PricesFromSpares(engine_price_usd, delivery_price_usd, airframe_price_usd, spares_price_usd) ==
    PricingBreakdown(engine_price_usd, delivery_price_usd, airframe_price_usd, spares_price_usd,
                     calculate_purchase_price(delivery_price_usd, spares_price_usd))

PricesFromAirframe(engine_price_usd, delivery_price_usd, airframe_price_usd, engine_count, params) ==
    PricesFromSpares(engine_price_usd, delivery_price_usd, airframe_price_usd,
                     calculate_spares_price(engine_price_usd, engine_count, airframe_price_usd,
                                            params.airframe_spares_factor, params.engine_spares_factor))

\* phase 1, from the resolved engine and delivery prices on
ResolvePrices(engine_price_usd, delivery_price_usd, engine_count, params) ==
    PricesFromAirframe(engine_price_usd, delivery_price_usd,
                       calculate_airframe_price(delivery_price_usd, engine_price_usd, engine_count),
                       engine_count, params)

calculate_costs(aircraft, params, target_year) ==
    CostsFromPrices(aircraft, params,
        \* phase 0: inflation factor
        calculate_inflation_factor(params.inflation_rate, target_year, GeneralReferenceYear),
        \* phase 1: pricing
        ResolvePrices(ResolveEnginePrice(aircraft, params, target_year),
                      ResolveDeliveryPrice(aircraft, params, target_year),
                      aircraft.engine_count, params),
        \* phase 2: weights
        calculate_airframe_weight(aircraft.operational_empty_weight_kg,
            calculate_installed_engine_weight(params.installed_engine_factor, params.installed_engine_reverse_factor,
                                              aircraft.engine_weight_kg, aircraft.engine_count)))

\* variant: a name of the body bound at module level, one binding for all the
\* threads
StoreGlobal(frames, t, name, value) ==
    [u \in DOMAIN frames |-> [frames[u] EXCEPT ![name] = value]]

\* an assignment in the body of calculate_costs run by thread t: it binds a
\* local name in the frame of that invocation
StoreLocal(frames, t, name, value) ==
    [frames EXCEPT ![t][name] = value]

\* variant: the target year of the last call kept at module level and used by
\* the next call in place of its own
CallEffectCachingYear(module_state, aircraft, params, target_year) ==
    [outcome      |-> IF module_state = << >>
                      THEN calculate_costs(aircraft, params, target_year)
                      ELSE calculate_costs(aircraft, params, module_state[1]),
     aircraft     |-> aircraft,
     params       |-> params,
     module_state |-> <<target_year>>]

\* variant: the resolved engine price written back into the AircraftParameters
CallEffectStoringPrices(module_state, aircraft, params, target_year) ==
    [outcome      |-> calculate_costs(aircraft, params, target_year),
     aircraft     |-> [aircraft EXCEPT !.engine_price_usd = ResolveEnginePrice(aircraft, params, target_year)],
     params       |-> params,
     module_state |-> module_state]

\* a call of calculate_costs as a whole: what it returns or raises, and what it
\* leaves in the two objects it was passed and in the module-level state of
\* cost_tool.  The body binds local names only: it stores to no attribute of
\* aircraft or params and reads or writes no module-level variable.
CallEffect(module_state, aircraft, params, target_year) ==
    [outcome      |-> calculate_costs(aircraft, params, target_year),
     aircraft     |-> aircraft,
     params       |-> params,
     module_state |-> module_state]

\* ------------------------------------------------------------------------
\* The coefficient set the callers attach to MethodParameters
\* (params.maintenance), and the maintenance formula as a function of it
\* ------------------------------------------------------------------------

\* the coefficients as calculate_maintenance writes them
CodeCoefficients ==
    [airframe_labor_weight_coefficient |-> F(9, -5),
     airframe_labor_base_hours |-> F(67, -1),
     airframe_labor_weight_numerator_kg |-> FInt(350000),
     airframe_labor_weight_denominator_offset_kg |-> FInt(75000),
     airframe_labor_time_base_factor |-> F(8, -1),
     airframe_labor_time_coefficient |-> F(68, -2),
     airframe_material_base_coefficient |-> F(42, -7),
     airframe_material_time_coefficient |-> F(22, -7),
     engine_k1_base |-> F(127, -2),
     engine_k1_bpr_coefficient |-> F(2, -1),
     engine_k1_bpr_exponent |-> F(2, -1),
     engine_k2_base |-> F(4, -1),
     engine_k2_opr_coefficient |-> F(4, -1),
     engine_k2_opr_divisor |-> FInt(20),
     engine_k2_opr_exponent |-> F(13, -1),
     engine_k3_compressor_coefficient |-> F(32, -3),
     engine_k4_single_shaft |-> F(5, -1),
     engine_k4_twin_shaft |-> F(57, -2),
     engine_k4_triple_shaft |-> F(64, -2),
     engine_labor_base_coefficient |-> EngineLaborBase,
     engine_labor_flight_time_constant |-> F(13, -1),
     engine_labor_thrust_coefficient |-> F(102, -6),
     engine_labor_thrust_exponent |-> F(4, -1),
     engine_material_base_coefficient |-> EngineMaterialBase,
     engine_material_flight_time_constant |-> F(13, -1),
     engine_material_thrust_exponent |-> F(8, -1)]

\* the fitted set of cost_tool_crj200.py
FittedCoefficients ==
    [airframe_labor_weight_coefficient |-> F(1, -6),
     airframe_labor_base_hours |-> F(7677, -3),
     airframe_labor_weight_numerator_kg |-> FInt(350000),
     airframe_labor_weight_denominator_offset_kg |-> FInt(75000),
     airframe_labor_time_base_factor |-> F(1, -1),
     airframe_labor_time_coefficient |-> F(8591, -4),
     airframe_material_base_coefficient |-> F(42, -7),
     airframe_material_time_coefficient |-> F(22, -7),
     engine_k1_base |-> F(5, -1),
     engine_k1_bpr_coefficient |-> F(2, -1),
     engine_k1_bpr_exponent |-> F(2, -1),
     engine_k2_base |-> F(4, -1),
     engine_k2_opr_coefficient |-> F(4, -1),
     engine_k2_opr_divisor |-> FInt(20),
     engine_k2_opr_exponent |-> F(5, -1),
     engine_k3_compressor_coefficient |-> F(32, -3),
     engine_k4_single_shaft |-> F(5, -1),
     engine_k4_twin_shaft |-> F(57, -2),
     engine_k4_triple_shaft |-> F(64, -2),
     engine_labor_base_coefficient |-> F(5, -2),
     engine_labor_flight_time_constant |-> F(13, -1),
     engine_labor_thrust_coefficient |-> F(102, -6),
     engine_labor_thrust_exponent |-> F(4, -1),
     engine_material_base_coefficient |-> FInt(2),
     engine_material_flight_time_constant |-> F(13, -1),
     engine_material_thrust_exponent |-> F(4, -1)]

\* k4 by shaft count from a coefficient set
ShaftFactorOf(c, engine_shafts) ==
    CASE engine_shafts = 1 -> c.engine_k4_single_shaft
      [] engine_shafts = 2 -> c.engine_k4_twin_shaft
      [] engine_shafts = 3 -> c.engine_k4_triple_shaft
      [] OTHER -> Raise("ValueError")

\* annual maintenance cost with the coefficients taken from the set c
MaintenanceFormula(c, flight_time_hours, airframe_weight_kg, airframe_price_usd, bypass_ratio, overall_pressure_ratio, compressor_stages, engine_shafts, takeoff_thrust_per_engine_N, engine_count, flights_per_year, labor_rate_usd_per_hour, inflation_factor) ==
    LET t_M_AF_f   == FMul(FMul(FDiv(One, flight_time_hours),
                                FSub(FAdd(FMul(c.airframe_labor_weight_coefficient, airframe_weight_kg),
                                          c.airframe_labor_base_hours),
                                     FDiv(c.airframe_labor_weight_numerator_kg,
                                          FAdd(airframe_weight_kg, c.airframe_labor_weight_denominator_offset_kg)))),
                           FAdd(c.airframe_labor_time_base_factor,
                                FMul(c.airframe_labor_time_coefficient, flight_time_hours)))
        C_M_M_AF_f == FMul(FMul(FDiv(One, flight_time_hours),
                                FAdd(c.airframe_material_base_coefficient,
                                     FMul(c.airframe_material_time_coefficient, flight_time_hours))),
                           airframe_price_usd)
        k1         == FSub(c.engine_k1_base,
                           FMul(c.engine_k1_bpr_coefficient, FPow(bypass_ratio, c.engine_k1_bpr_exponent)))
        k2         == FAdd(FDiv(FMul(c.engine_k2_opr_coefficient,
                                     FPow(overall_pressure_ratio, c.engine_k2_opr_exponent)),
                                c.engine_k2_opr_divisor),
                           c.engine_k2_base)
        k4         == ShaftFactorOf(c, engine_shafts)
        k3         == FAdd(FMul(c.engine_k3_compressor_coefficient, FInt(compressor_stages)), k4)
        t_M_E_f    == FMul(FMul(FMul(FMul(FMul(FInt(engine_count), c.engine_labor_base_coefficient), k1), k3),
                                FPow(FAdd(One, FMul(c.engine_labor_thrust_coefficient, takeoff_thrust_per_engine_N)),
                                     c.engine_labor_thrust_exponent)),
                           FAdd(One, FDiv(c.engine_labor_flight_time_constant, flight_time_hours)))
        C_M_M_E_f  == FMul(FMul(FMul(FMul(FMul(FMul(FInt(engine_count), c.engine_material_base_coefficient), k1),
                                          FAdd(k2, k3)),
                                     FPow(FAdd(One, FMul(c.engine_labor_thrust_coefficient, takeoff_thrust_per_engine_N)),
                                          c.engine_material_thrust_exponent)),
                                FAdd(One, FDiv(c.engine_material_flight_time_constant, flight_time_hours))),
                           inflation_factor)
        total      == FMul(FMul(FAdd(FAdd(FMul(FAdd(t_M_AF_f, t_M_E_f), labor_rate_usd_per_hour), C_M_M_AF_f),
                                     C_M_M_E_f),
                                flight_time_hours),
                           FInt(flights_per_year))
    IN  Body(<<t_M_AF_f, C_M_M_AF_f, k1, k2, k4, k3, t_M_E_f, C_M_M_E_f>>, total)

\* ------------------------------------------------------------------------
\* Inputs
\* ------------------------------------------------------------------------

\* MethodParameters() with its default field values
DefaultParams ==
    [airframe_spares_factor |-> F(1, -1),
     engine_spares_factor |-> F(3, -1),
     depreciation_period_years |-> 16,
     depreciation_relative_residual |-> F(1, -1),
     interest_rate |-> F(8, -2),
     repayment_period_years |-> 16,
     balloon_fraction |-> F(1, -1),
     insurance_factor |-> F(5, -3),
     inflation_rate |-> F(13, -3),
     fuel_price_usd |-> FMul(F(888, -3), F(7, -1)),
     installed_engine_factor |-> F(115, -2),
     installed_engine_reverse_factor |-> F(118, -2),
     labor_rate_usd_per_hour |-> FInt(65),
     cabin_crew_rate_usd_per_hour |-> Zero,
     cockpit_crew_rate_usd_per_hour |-> FDiv(FInt(295), FInt(2)),
     landing_fee_factor |-> FDiv(F(78, -4), FInt(15)),
     navigation_fee_factor |-> FDiv(F(414, -5), FInt(15)),
     ground_handling_factor |-> FDiv(F(10, -2), FInt(15)),
     maintenance |-> CodeCoefficients]

\* the ERJ-145 XR of fit_erj145_maintenance.py
BaseAircraft ==
    [block_time_hours |-> F(2083, -3),
     flight_time_hours |-> F(1567, -3),
     flights_per_year |-> 1,
     aircraft_delivery_price_usd |-> None,
     engine_price_usd |-> None,
     maximum_takeoff_weight_kg |-> FDiv(F(4850, 1), F(2205, -3)),
     operational_empty_weight_kg |-> F(1250, 1),
     engine_weight_kg |-> F(7516, -1),
     fuel_weight_kg |-> FInt(1731),
     payload_weight_kg |-> FInt(3800),
     range_nm |-> FInt(654),
     engine_count |-> 2,
     bypass_ratio |-> F(47, -1),
     overall_pressure_ratio |-> FInt(20),
     compressor_stages |-> 9,
     engine_shafts |-> 2,
     takeoff_thrust_per_engine_N |-> F(3967, 1),
     cockpit_crew_count |-> 2,
     cabin_crew_count |-> 1]

\* the most fields a caller changes from the base configuration before the call
MaxOverrides == 3

\* the values a caller gives a field of AircraftParameters (dataclasses.replace,
\* or the constructor's keyword): degenerate and ordinary ones.  An OEW of
\* -72960 kg makes the airframe weight -75000 kg.
AircraftOptions ==
    [flights_per_year |-> {-2, 0, 1200},
     flight_time_hours |-> {Zero},
     engine_shafts |-> {1, 3, 4},
     engine_price_usd |-> {F(2, 6), F(9, 6)},
     aircraft_delivery_price_usd |-> {F(15, 6)},
     operational_empty_weight_kg |-> {F(-7296, 1)}]

\* the values a caller gives a field of MethodParameters
ParamsOptions ==
    [interest_rate |-> {Zero},
     inflation_rate |-> {F(3, -2)},
     depreciation_period_years |-> {0},
     engine_spares_factor |-> {F(5, -1)},
     maintenance |-> {FittedCoefficients}]

\* the target years callers pass: the default, and the engine correlation's own year
DefaultTargetYear == 2026

TargetYearOptions == {1999, 2025}

\* ------------------------------------------------------------------------
\* fit_erj145_maintenance.py: the data of the calibration and its objective
\* ------------------------------------------------------------------------

\* the module-level coefficient object the script imports from cost_tool and
\* attaches to base_params; its values are those of the callers' fitted sets
FITTED_MAINTENANCE_PARAMS == FittedCoefficients

crj_700 ==
    [block_time_hours |-> F(2333, -3),
     flight_time_hours |-> F(1966, -3),
     flights_per_year |-> 1200,
     aircraft_delivery_price_usd |-> None,
     engine_price_usd |-> None,
     maximum_takeoff_weight_kg |-> FDiv(FInt(75000), F(2205, -3)),
     operational_empty_weight_kg |-> FDiv(FInt(43712), F(2205, -3)),
     engine_weight_kg |-> FInt(1088),
     fuel_weight_kg |-> FInt(3514),
     payload_weight_kg |-> FInt(8431),
     range_nm |-> FInt(689),
     engine_count |-> 2,
     bypass_ratio |-> FInt(5),
     overall_pressure_ratio |-> FInt(28),
     compressor_stages |-> 10,
     engine_shafts |-> 2,
     takeoff_thrust_per_engine_N |-> FInt(61300),
     cockpit_crew_count |-> 2,
     cabin_crew_count |-> 1]

\* USD per flight
TARGET_ERJ145 == FInt(1350)

TARGET_CRJ700 == FInt(1450)

\* the target year of every calculate_costs call of the script
FitTargetYear == 2025

\* the list params_to_fit, in its order
params_in_order ==
    <<"airframe_labor_base_hours", "airframe_labor_weight_numerator_kg",
      "airframe_labor_weight_denominator_offset_kg", "airframe_labor_time_coefficient",
      "engine_k1_base", "engine_k2_opr_exponent", "airframe_labor_time_base_factor",
      "engine_material_thrust_exponent", "airframe_labor_weight_coefficient",
      "engine_labor_base_coefficient">>

\* the names of the list
params_to_fit == {params_in_order[i] : i \in DOMAIN params_in_order}

\* the list bounds, in its order: the box the optimizer keeps the vector in,
\* the i-th pair for the i-th coordinate
bounds ==
    <<<<F(1, -1), FInt(20)>>,
      <<F(1, 4), F(1, 6)>>,
      <<F(1, 3), F(3, 5)>>,
      <<F(1, -1), FInt(2)>>,
      <<F(5, -1), FInt(2)>>,
      <<F(5, -1), FInt(2)>>,
      <<F(1, -1), FInt(2)>>,
      <<F(4, -1), F(12, -1)>>,
      <<F(1, -6), F(1, -3)>>,
      <<F(5, -2), F(5, -1)>>>>

\* a vector inside the box, coordinate by coordinate
WithinBounds(v) == \A i \in DOMAIN v : FLe(bounds[i][1], v[i]) /\ FLe(v[i], bounds[i][2])

\* variant: each name paired with the value of the next position
DictZipShifted(keys, values) ==
    [n \in {keys[i] : i \in DOMAIN keys} |->
        values[((CHOOSE i \in DOMAIN keys : keys[i] = n) % Len(values)) + 1]]

\* dict(zip(keys, values)): each name paired with the value of its position
dict_zip(keys, values) ==
    [n \in {keys[i] : i \in DOMAIN keys} |-> values[CHOOSE i \in DOMAIN keys : keys[i] = n]]

\* variant: the changes written into the object passed in, which is returned
ReplaceInPlace(obj, changes) ==
    [obj  |-> [f \in DOMAIN obj |-> IF f \in DOMAIN changes THEN changes[f] ELSE obj[f]],
     copy |-> [f \in DOMAIN obj |-> IF f \in DOMAIN changes THEN changes[f] ELSE obj[f]]]

\* dataclasses.replace(obj, **changes): the object passed in after the call,
\* and the new object returned, which has the changes and every other field
\* of obj
replace(obj, changes) ==
    [obj  |-> obj,
     copy |-> [f \in DOMAIN obj |-> IF f \in DOMAIN changes THEN changes[f] ELSE obj[f]]]

\* the two replace calls that build a parameter set for a vector: what they
\* leave in the shared coefficient object and in base_params, and the set
BuiltFrom(maint, whole) ==
    [shared_default |-> maint.obj, base_params |-> whole.obj, new_params |-> whole.copy]

BuildParams(base_params, maint) ==
    BuiltFrom(maint, replace([base_params EXCEPT !.maintenance = maint.obj], [maintenance |-> maint.copy]))

\* variant: the labor rate varied with the vector, scaled by its engine_k1_base
BuildVaryingLaborRate(base_params, param_dict) ==
    BuildParams([base_params EXCEPT !.labor_rate_usd_per_hour = FMul(@, param_dict.engine_k1_base)],
                replace(base_params.maintenance, param_dict))

Build(base_params, param_dict) ==
    BuildParams(base_params, replace(base_params.maintenance, param_dict))

\* variant: the initial vector read from the coefficients written in
\* calculate_maintenance, not from base_params.maintenance
InitialValuesFromCode(base_params) == [i \in DOMAIN params_in_order |-> CodeCoefficients[params_in_order[i]]]

initial_values(base_params) == [i \in DOMAIN params_in_order |-> base_params.maintenance[params_in_order[i]]]

\* result.per_flight.maintenance of a call, or the exception of the call
PerFlightMaintenance(result) == IF IsExc(result) THEN result ELSE result.per_flight.maintenance

predicted_cost(aircraft, new_params) ==
    PerFlightMaintenance(calculate_costs(aircraft, new_params, FitTargetYear))

\* variant: the errors added up as they are, not squared
RECURSIVE SignedErrorUpTo(_, _, _)
SignedErrorUpTo(aircraft_data, predicted, n) ==
    IF n = 0 THEN Zero
    ELSE FAdd(SignedErrorUpTo(aircraft_data, predicted, n - 1),
              FSub(predicted[n], aircraft_data[n].target))

SumOfSignedErrors(aircraft_data, predicted) ==
    SignedErrorUpTo(aircraft_data, predicted, Len(aircraft_data))

\* total_error after the first n entries of aircraft_data, predicted[i] being
\* the predicted_cost of entry i
RECURSIVE TotalErrorUpTo(_, _, _)
TotalErrorUpTo(aircraft_data, predicted, n) ==
    IF n = 0 THEN Zero
    ELSE FAdd(TotalErrorUpTo(aircraft_data, predicted, n - 1),
              FSquare(FSub(predicted[n], aircraft_data[n].target)))

\* the loop of objective_function over aircraft_data: the squared errors of
\* the predicted costs added up
objective_function(aircraft_data, predicted) ==
    TotalErrorUpTo(aircraft_data, predicted, Len(aircraft_data))

\* an entry of aircraft_data
Data(name, aircraft, target) ==
    [name |-> name, aircraft |-> aircraft, target |-> target,
     baseline |-> None, fitted |-> None, error |-> None]

\* the baseline cost the script prints for the ERJ-145 XR, USD per flight
BASELINE_ERJ145 == FInt(1079)

\* the lists the script is run on: the ERJ-145 XR with its target, as written;
\* the ERJ-145 XR with its own baseline cost as the target; and with the
\* CRJ-700 entry, alone and second
AircraftDataOptions ==
    {<<Data("ERJ-145 XR", BaseAircraft, TARGET_ERJ145)>>,
     <<Data("ERJ-145 XR", BaseAircraft, BASELINE_ERJ145)>>,
     <<Data("CRJ-700", crj_700, TARGET_CRJ700)>>,
     <<Data("ERJ-145 XR", BaseAircraft, TARGET_ERJ145), Data("CRJ-700", crj_700, TARGET_CRJ700)>>}

\* a row of the baseline loop: the baseline stored in the entry, or the
\* exception of the call or of target / baseline_cost
BaselineRow(data, baseline_cost) ==
    Body(<<baseline_cost, FDiv(data.target, baseline_cost)>>, [data EXCEPT !.baseline = baseline_cost])

\* a row of the final loop: fitted cost and error stored in the entry, or the
\* exception of the call or of error / target
FinalRow(data, final_cost) ==
    Body(<<final_cost, FDiv(FSub(final_cost, data.target), data.target)>>,
         [data EXCEPT !.fitted = final_cost, !.error = FSub(final_cost, data.target)])

\* the exception of the first row of a loop that raised, or None
RaisedIn(rows) == Body(rows, None)

\* the parameter table divides each fitted value by the original one
ParameterTable(base_params, fitted_params) ==
    IF \E n \in params_to_fit : FIsZero(base_params.maintenance[n])
    THEN Raise("ZeroDivisionError")
    ELSE [n \in params_to_fit |-> FDiv(fitted_params.maintenance[n], base_params.maintenance[n])]

\* base_params as the script constructs it: the defaults of MethodParameters
\* with the shared coefficient object attached
BaseParamsAtStart == [DefaultParams EXCEPT !.maintenance = FITTED_MAINTENANCE_PARAMS]

\* variant: the run reported as converged whatever the optimizer said
AlwaysConverged(opt_result) ==
    [success |-> TRUE, nit |-> opt_result.nit, fun |-> opt_result.fun]

\* what the script prints of the optimizer's result
PrintedResult(opt_result) ==
    [success |-> opt_result.success, nit |-> opt_result.nit, fun |-> opt_result.fun]

\* ------------------------------------------------------------------------
\* maintenance_sensitivity_analysis.py: the data of the analysis, the
\* perturbation of one field, the records of a row and the table
\* ------------------------------------------------------------------------

\* fields(MaintenanceParameters): the coefficient names, in the order the
\* callers write them
maint_fields ==
    <<"airframe_labor_base_hours", "airframe_labor_time_base_factor",
      "airframe_labor_time_coefficient", "airframe_labor_weight_coefficient",
      "airframe_labor_weight_denominator_offset_kg", "airframe_labor_weight_numerator_kg",
      "airframe_material_base_coefficient", "airframe_material_time_coefficient",
      "engine_k1_base", "engine_k1_bpr_coefficient", "engine_k1_bpr_exponent",
      "engine_k2_base", "engine_k2_opr_coefficient", "engine_k2_opr_divisor",
      "engine_k2_opr_exponent", "engine_k3_compressor_coefficient",
      "engine_k4_single_shaft", "engine_k4_triple_shaft", "engine_k4_twin_shaft",
      "engine_labor_base_coefficient", "engine_labor_flight_time_constant",
      "engine_labor_thrust_coefficient", "engine_labor_thrust_exponent",
      "engine_material_base_coefficient", "engine_material_flight_time_constant",
      "engine_material_thrust_exponent">>

\* the ERJ-145 XR of the analysis
SensAircraft ==
    [block_time_hours |-> F(2333, -3),
     flight_time_hours |-> F(2087, -3),
     flights_per_year |-> 1200,
     aircraft_delivery_price_usd |-> None,
     engine_price_usd |-> None,
     maximum_takeoff_weight_kg |-> FDiv(FInt(48501), F(2205, -3)),
     operational_empty_weight_kg |-> FDiv(FInt(27550), F(2205, -3)),
     engine_weight_kg |-> F(7516, -1),
     fuel_weight_kg |-> FInt(2664),
     payload_weight_kg |-> FInt(5403),
     range_nm |-> FInt(689),
     engine_count |-> 2,
     bypass_ratio |-> F(47, -1),
     overall_pressure_ratio |-> FInt(20),
     compressor_stages |-> 9,
     engine_shafts |-> 2,
     takeoff_thrust_per_engine_N |-> F(3967, 1),
     cockpit_crew_count |-> 2,
     cabin_crew_count |-> 1]

\* the target year of every calculate_costs call of the analysis
SensTargetYear == 2025

calculate_maintenance_only(aircraft, params) ==
    PerFlightMaintenance(calculate_costs(aircraft, params, SensTargetYear))

\* int(x) of a float: the digits before the decimal point, the sign kept
FTrunc(a) ==
    IF a.e >= 0 THEN a.m * Pow10(a.e)
    ELSE IF -a.e > 9 THEN 0
    ELSE Sgn(a.m) * (Abs(a.m) \div Pow10(-a.e))

\* the int that f'{int(frac*100):+d}pct' writes into the three keys of a
\* fraction; the signed decimal form of an int names it
PctKey(frac) == FTrunc(FMul(frac, FInt(100)))

new_value(base_value, frac) == FMul(base_value, FAdd(One, frac))

\* variant: the field set on base_params.maintenance itself
PerturbedInPlace(base_params, param_name, frac) ==
    [shared_default |-> [base_params.maintenance EXCEPT ![param_name] = new_value(@, frac)],
     base_params    |-> [base_params EXCEPT !.maintenance[param_name] = new_value(@, frac)],
     new_params     |-> [base_params EXCEPT !.maintenance[param_name] = new_value(@, frac)]]

\* the two replace calls of a perturbation: what they leave in
\* base_params.maintenance and in base_params, and the new parameter set
Perturbed(base_params, param_name, frac) ==
    Build(base_params, [n \in {param_name} |-> new_value(base_params.maintenance[param_name], frac)])

\* variant: the ratio of the costs, the base not subtracted
RelChangeOfRatio(new_cost, base_cost) ==
    IF ~FIsZero(base_cost) THEN FMul(FDiv(new_cost, base_cost), FInt(100)) ELSE Zero

rel_change(new_cost, base_cost) ==
    IF ~FIsZero(base_cost) THEN FMul(FSub(FDiv(new_cost, base_cost), One), FInt(100)) ELSE Zero

\* the three records of a fraction, stored under its key
PctRecords(new_cost, base_cost) ==
    [cost |-> new_cost, abs_change |-> FSub(new_cost, base_cost), rel_change |-> rel_change(new_cost, base_cost)]

\* d[k] = v on a dict
Put(d, k, v) == [j \in DOMAIN d \cup {k} |-> IF j = k THEN v ELSE d[j]]

\* the relative change read back for a fraction, per 10 % of perturbation
sensitivity(param_results, frac) ==
    FMul(FDiv(FAbs(param_results.by_pct[PctKey(frac)].rel_change), FAbs(FMul(frac, FInt(100)))), FInt(10))

RECURSIVE SumUpTo(_, _)
SumUpTo(values, n) ==
    IF n = 0 THEN Zero ELSE FAdd(SumUpTo(values, n - 1), values[n])

np_mean(values) == FDiv(SumUpTo(values, Len(values)), FInt(Len(values)))

np_std(values) ==
    FPow(np_mean([i \in DOMAIN values |-> FSquare(FSub(values[i], np_mean(values)))]), F(5, -1))

\* the row of a field: its records and its two scores
ScoredRow(param_results, sensitivity_scores) ==
    [parameter |-> param_results.parameter,
     base_value |-> param_results.base_value,
     base_cost |-> param_results.base_cost,
     by_pct |-> param_results.by_pct,
     sensitivity |-> np_mean(sensitivity_scores),
     sensitivity_std |-> np_std(sensitivity_scores)]

\* a row put into rows sorted by falling sensitivity, behind its equals
RECURSIVE InsertByScore(_, _)
InsertByScore(sorted, row) ==
    IF sorted = <<>> THEN <<row>>
    ELSE IF FLt(Head(sorted).sensitivity, row.sensitivity) THEN <<row>> \o sorted
    ELSE <<Head(sorted)>> \o InsertByScore(Tail(sorted), row)

RECURSIVE SortUpTo(_, _)
SortUpTo(rows, n) ==
    IF n = 0 THEN <<>> ELSE InsertByScore(SortUpTo(rows, n - 1), rows[n])

\* the rows whose sensitivity no earlier row has
RECURSIVE DistinctUpTo(_, _)
DistinctUpTo(rows, n) ==
    IF n = 0 THEN <<>>
    ELSE IF \E j \in 1..(n - 1) : rows[j].sensitivity = rows[n].sensitivity THEN DistinctUpTo(rows, n - 1)
    ELSE Append(DistinctUpTo(rows, n - 1), rows[n])

\* variant: a sort that keeps one row of each sensitivity
SortKeepingDistinctScores(rows) ==
    SortUpTo(DistinctUpTo(rows, Len(rows)), Len(DistinctUpTo(rows, Len(rows))))

\* df.sort_values('sensitivity', ascending=False); pandas leaves the order
\* of rows with equal sensitivity open, here they keep their order
sort_values(rows) == SortUpTo(rows, Len(rows))

\* the names the returned table reports as left out: the DataFrame has one
\* row for each field analysed and nothing else
ReportedExcluded(table) == {}

\* the coefficient sets the analysis is given: the defaults, the defaults
\* with two coefficients zero, and all coefficients zero
SensParamsOptions ==
    {DefaultParams,
     [DefaultParams EXCEPT !.maintenance.airframe_labor_base_hours = Zero, !.maintenance.engine_k2_base = Zero],
     [DefaultParams EXCEPT !.maintenance = [f \in DOMAIN CodeCoefficients |-> Zero]]}

\* the perturbation_fractions the analysis is given: the default, two
\* fractions within one percent, two fractions below one percent, and a
\* list with a zero
FractionsOptions ==
    {<<F(-20, -2), F(-10, -2), F(10, -2), F(20, -2)>>,
     <<F(10, -2), F(105, -3)>>,
     <<F(-5, -3), F(5, -3)>>,
     <<F(10, -2), Zero>>}

SensOptions ==
    [aircraft : {SensAircraft, [SensAircraft EXCEPT !.engine_shafts = 4]},
     base_params : SensParamsOptions,
     perturbation_fractions : FractionsOptions]

\* ------------------------------------------------------------------------
\* State machine: a caller builds the inputs, then calls calculate_costs once
\* ------------------------------------------------------------------------

VARIABLES aircraft, params, target_year, changed, pc, result, error

\* the module-level mutable state of cost_tool (it has none: the module binds
\* classes and functions only), and the calls a caller has made so far, each
\* with its inputs and its outcome
VARIABLES module_state, history

\* the frames of the threads that call calculate_costs at the same time: a
\* frame holds the locals of one invocation
VARIABLES frames

\* the variables of the single call and of the row of calls
call_vars == <<aircraft, params, target_year, changed, pc, result, error, module_state, history>>

\* the calibration script: where it stands; the FITTED_MAINTENANCE_PARAMS
\* object of cost_tool, which base_params.maintenance also names; base_params;
\* aircraft_data; the optimizer's iterate x, the objective fun at it and its
\* iteration count nit; the objective at the initial vector; the vector of
\* the last objective evaluation, the parameters it built, the costs
\* calculate_costs last predicted, one for each aircraft, and the value the
\* evaluation returned; the optimizer's result; the fitted parameters; what
\* the script printed of the result
VARIABLES fit_pc, shared_default, base_params, aircraft_data, x, fun, nit, first_fun, trial, new_params, predicted, last_fun, opt_result, fitted_params, printed

\* a caller of the closed-form delivery price: where it stands, the inputs it
\* took, and the prices it has computed from them so far
VARIABLES solve_pc, solve_in, solve_delivery, solve_airframe, solve_spares, solve_purchase

thread_vars == <<frames>>

solve_vars == <<solve_pc, solve_in, solve_delivery, solve_airframe, solve_spares, solve_purchase>>

\* sensitivity_analysis: where it stands and the exception it raised; its
\* arguments as given; base_params as it is now; base_cost; the list results;
\* the number of fields taken; param_results of the field at hand; the number
\* of fractions recorded for it; the perturbed parameters and their cost; the
\* table returned
VARIABLES sens_pc, sens_error, sens_in, sens_base_params, base_cost, results, field_i, param_results, frac_i, sens_new_params, new_cost, df

sens_vars == <<sens_pc, sens_error, sens_in, sens_base_params, base_cost, results, field_i, param_results, frac_i, sens_new_params, new_cost, df>>

\* the variables of the callers of the pricing functions and of the
\* sensitivity analysis
tool_vars == <<solve_vars, sens_vars>>

fit_vars == <<fit_pc, shared_default, base_params, aircraft_data, x, fun, nit, first_fun, trial, new_params, predicted, last_fun, opt_result, fitted_params, printed>>

\* the variables the single call and the row of calls leave alone
other_vars == <<thread_vars, fit_vars, tool_vars>>

vars == <<call_vars, other_vars>>

\* the threads that call at the same time
NumThreads == 2

Threads == 1..NumThreads

\* the frame of a thread that has not entered calculate_costs
IdleFrame ==
    [pc |-> "idle", given |-> None, aircraft |-> None, params |-> None, target_year |-> None,
     inflation_factor |-> None, prices |-> None, airframe_weight_kg |-> None, outcome |-> None]

Init ==
    /\ aircraft = BaseAircraft
    /\ params = DefaultParams
    /\ target_year = DefaultTargetYear
    /\ changed = {}
    /\ pc = "setup"
    /\ result = None
    /\ error = "none"
    /\ module_state = << >>
    /\ history = << >>
    /\ frames = [t \in Threads |-> IdleFrame]
    /\ fit_pc = "start"
    /\ shared_default = FITTED_MAINTENANCE_PARAMS
    /\ base_params = None
    /\ aircraft_data = << >>
    /\ x = None
    /\ fun = None
    /\ nit = 0
    /\ first_fun = None
    /\ trial = None
    /\ new_params = None
    /\ predicted = << >>
    /\ last_fun = None
    /\ opt_result = None
    /\ fitted_params = None
    /\ printed = None
    /\ solve_pc = "start"
    /\ solve_in = None
    /\ solve_delivery = None
    /\ solve_airframe = None
    /\ solve_spares = None
    /\ solve_purchase = None
    /\ sens_pc = "start"
    /\ sens_error = "none"
    /\ sens_in = None
    /\ sens_base_params = None
    /\ base_cost = None
    /\ results = << >>
    /\ field_i = 0
    /\ param_results = None
    /\ frac_i = 0
    /\ sens_new_params = None
    /\ new_cost = None
    /\ df = None

CanOverride(f) == pc = "setup" /\ f \notin changed /\ Cardinality(changed) < MaxOverrides

\* the caller sets one field of the AircraftParameters
SetAircraftField ==
    \E f \in DOMAIN AircraftOptions : \E v \in AircraftOptions[f] :
        /\ CanOverride(f)
        /\ aircraft' = [aircraft EXCEPT ![f] = v]
        /\ changed' = changed \cup {f}
        /\ UNCHANGED <<params, target_year, pc, result, error, module_state, history, other_vars>>

\* the caller sets one field of the MethodParameters
SetParamsField ==
    \E f \in DOMAIN ParamsOptions : \E v \in ParamsOptions[f] :
        /\ CanOverride(f)
        /\ params' = [params EXCEPT ![f] = v]
        /\ changed' = changed \cup {f}
        /\ UNCHANGED <<aircraft, target_year, pc, result, error, module_state, history, other_vars>>

\* the caller passes target_year instead of taking the default
SetTargetYear ==
    \E y \in TargetYearOptions :
        /\ CanOverride("target_year")
        /\ target_year' = y
        /\ changed' = changed \cup {"target_year"}
        /\ UNCHANGED <<aircraft, params, pc, result, error, module_state, history, other_vars>>

\* calculate_costs(aircraft, params, target_year) returns a DOCResult or raises
Call ==
    /\ pc = "setup"
    /\ \E eff \in {CallEffect(module_state, aircraft, params, target_year)} :
           /\ IF IsExc(eff.outcome)
              THEN /\ pc' = "raised"
                   /\ error' = eff.outcome.exc
                   /\ result' = None
              ELSE /\ pc' = "returned"
                   /\ error' = "none"
                   /\ result' = eff.outcome
           /\ aircraft' = eff.aircraft
           /\ params' = eff.params
           /\ module_state' = eff.module_state
    /\ UNCHANGED <<target_year, changed, history, other_vars>>

Next == SetAircraftField \/ SetParamsField \/ SetTargetYear \/ Call

Spec == Init /\ [][Next]_vars

\* ------------------------------------------------------------------------
\* State machine: a caller makes several calls of calculate_costs in a row
\* ------------------------------------------------------------------------

\* the most calls in a row
MaxCalls == 3

\* the inputs of the calls: the ERJ-145 XR at two target years, with 1200
\* flights a year, with a supplied engine price, and with a shaft count the
\* maintenance formula rejects
CallInputs ==
    {[aircraft |-> BaseAircraft, params |-> DefaultParams, target_year |-> DefaultTargetYear],
     [aircraft |-> BaseAircraft, params |-> DefaultParams, target_year |-> 2025],
     [aircraft |-> [BaseAircraft EXCEPT !.flights_per_year = 1200], params |-> DefaultParams, target_year |-> 2025],
     [aircraft |-> [BaseAircraft EXCEPT !.engine_price_usd = F(2, 6)], params |-> DefaultParams, target_year |-> DefaultTargetYear],
     [aircraft |-> [BaseAircraft EXCEPT !.engine_shafts = 4], params |-> DefaultParams, target_year |-> DefaultTargetYear]}

\* the next call of the row: its inputs, its outcome, and what it leaves behind
CallInSequence ==
    /\ Len(history) < MaxCalls
    /\ \E c \in CallInputs :
         \E eff \in {CallEffect(module_state, c.aircraft, c.params, c.target_year)} :
           /\ IF IsExc(eff.outcome)
              THEN /\ pc' = "raised"
                   /\ error' = eff.outcome.exc
                   /\ result' = None
              ELSE /\ pc' = "returned"
                   /\ error' = "none"
                   /\ result' = eff.outcome
           /\ aircraft' = eff.aircraft
           /\ params' = eff.params
           /\ target_year' = c.target_year
           /\ module_state' = eff.module_state
           /\ history' = Append(history, [inputs |-> c, outcome |-> eff.outcome])
    /\ UNCHANGED <<changed, other_vars>>

NextCalls == CallInSequence

SpecCalls == Init /\ [][NextCalls]_vars

\* ------------------------------------------------------------------------
\* State machine: threads call calculate_costs at the same time, each on its
\* own inputs; a thread switch can come between any two statements, here
\* between the phases of the body
\* ------------------------------------------------------------------------

\* thread t enters calculate_costs: the arguments become locals of its frame
ThreadEnter ==
    \E t \in Threads : \E c \in CallInputs :
        /\ frames[t].pc = "idle"
        /\ frames' = [StoreLocal(StoreLocal(StoreLocal(frames, t, "aircraft", c.aircraft), t, "params", c.params),
                                 t, "target_year", c.target_year)
                        EXCEPT ![t].pc = "entered", ![t].given = c]
        /\ UNCHANGED <<call_vars, fit_vars, tool_vars>>

\* phases 0 and 1 in thread t: the inflation factor and the prices
ThreadPricing ==
    \E t \in Threads :
        /\ frames[t].pc = "entered"
        /\ frames' = [StoreLocal(StoreLocal(frames, t, "inflation_factor",
                                            calculate_inflation_factor(frames[t].params.inflation_rate,
                                                                       frames[t].target_year, GeneralReferenceYear)),
                                 t, "prices",
                                 ResolvePrices(ResolveEnginePrice(frames[t].aircraft, frames[t].params, frames[t].target_year),
                                               ResolveDeliveryPrice(frames[t].aircraft, frames[t].params, frames[t].target_year),
                                               frames[t].aircraft.engine_count, frames[t].params))
                        EXCEPT ![t].pc = "priced"]
        /\ UNCHANGED <<call_vars, fit_vars, tool_vars>>

\* phase 2 in thread t: the airframe weight
ThreadWeights ==
    \E t \in Threads :
        /\ frames[t].pc = "priced"
        /\ frames' = [StoreLocal(frames, t, "airframe_weight_kg",
                                 calculate_airframe_weight(frames[t].aircraft.operational_empty_weight_kg,
                                     calculate_installed_engine_weight(frames[t].params.installed_engine_factor,
                                                                       frames[t].params.installed_engine_reverse_factor,
                                                                       frames[t].aircraft.engine_weight_kg,
                                                                       frames[t].aircraft.engine_count)))
                        EXCEPT ![t].pc = "weighed"]
        /\ UNCHANGED <<call_vars, fit_vars, tool_vars>>

\* phases 3 to 5 in thread t: the cost categories, the three bases, and the
\* return (or the exception of a category or of a normalisation)
ThreadCosts ==
    \E t \in Threads :
        /\ frames[t].pc = "weighed"
        /\ \E out \in {CostsFromPrices(frames[t].aircraft, frames[t].params, frames[t].inflation_factor,
                                         frames[t].prices, frames[t].airframe_weight_kg)} :
               frames' = [frames EXCEPT ![t].outcome = out,
                                        ![t].pc = IF IsExc(out) THEN "raised" ELSE "returned"]
        /\ UNCHANGED <<call_vars, fit_vars, tool_vars>>

NextThreads == ThreadEnter \/ ThreadPricing \/ ThreadWeights \/ ThreadCosts

SpecThreads == Init /\ [][NextThreads]_vars

\* ------------------------------------------------------------------------
\* State machine: the calibration script.  minimize is scipy's L-BFGS-B; the
\* model keeps of it what the script relies on: it evaluates the objective at
\* the initial vector and then at trial vectors inside the bounds, moves its
\* iterate only to a trial with a strictly smaller objective, and returns the
\* iterate with success = False when it stops at its iteration cap.
\* ------------------------------------------------------------------------

\* the iteration cap of the optimizer (maxiter)
MaxIter == 2

\* the coordinates the optimizer tries, each inside its bounds
TrialChanges ==
    {[index |-> 1, value |-> FInt(10)],
     [index |-> 4, value |-> One],
     [index |-> 5, value |-> One],
     [index |-> 10, value |-> F(1, -1)]}

Trials(v) == {w \in {[v EXCEPT ![c.index] = c.value] : c \in TrialChanges} : w # v /\ WithinBounds(w)}

\* aircraft_data and base_params are set up
FitSetup ==
    /\ fit_pc = "start"
    /\ \E d \in AircraftDataOptions : aircraft_data' = d
    /\ base_params' = [DefaultParams EXCEPT !.maintenance = shared_default]
    /\ fit_pc' = "call_baseline"
    /\ UNCHANGED <<shared_default, x, fun, nit, first_fun, trial, new_params, predicted, last_fun, opt_result, fitted_params, printed>>
    /\ UNCHANGED <<call_vars, thread_vars, tool_vars>>

\* the calculate_costs calls of a loop over aircraft_data, with the parameters
\* of the loop: base_params in the baseline loop, new_params in
\* objective_function, fitted_params in the final loop
FitCalculate ==
    /\ fit_pc \in {"call_baseline", "call_objective", "call_final"}
    /\ \E costs \in {[i \in DOMAIN aircraft_data |->
                        predicted_cost(aircraft_data[i].aircraft,
                                       IF fit_pc = "call_baseline" THEN base_params
                                       ELSE IF fit_pc = "call_objective" THEN new_params
                                       ELSE fitted_params)]} :
           /\ predicted' = costs
           /\ fit_pc' = IF IsExc(RaisedIn(costs)) THEN "raised"
                        ELSE IF fit_pc = "call_baseline" THEN "baseline"
                        ELSE IF fit_pc = "call_objective" THEN "objective"
                        ELSE "final"
    /\ UNCHANGED <<shared_default, base_params, aircraft_data, x, fun, nit, first_fun, trial, new_params, last_fun, opt_result, fitted_params, printed>>
    /\ UNCHANGED <<call_vars, thread_vars, tool_vars>>

\* the rest of the baseline loop, and the initial vector read from base_params
FitBaseline ==
    /\ fit_pc = "baseline"
    /\ \E rows \in {[i \in DOMAIN aircraft_data |-> BaselineRow(aircraft_data[i], predicted[i])]} :
           IF IsExc(RaisedIn(rows))
           THEN /\ fit_pc' = "raised"
                /\ UNCHANGED <<aircraft_data, x>>
           ELSE /\ fit_pc' = "optimizing"
                /\ aircraft_data' = rows
                /\ x' = initial_values(base_params)
    /\ UNCHANGED <<shared_default, base_params, fun, nit, first_fun, trial, new_params, predicted, last_fun, opt_result, fitted_params, printed>>
    /\ UNCHANGED <<call_vars, thread_vars, tool_vars>>

\* minimize calls objective_function, first at the initial vector, then at a
\* trial vector, once an iteration: the parameter set is built
FitBuild ==
    /\ fit_pc = "optimizing"
    /\ fun = None \/ nit < MaxIter
    /\ \E v \in (IF fun = None THEN {x} ELSE Trials(x)) :
         \E built \in {Build(base_params, dict_zip(params_in_order, v))} :
             /\ trial' = v
             /\ shared_default' = built.shared_default
             /\ base_params' = built.base_params
             /\ new_params' = built.new_params
    /\ fit_pc' = "call_objective"
    /\ UNCHANGED <<aircraft_data, x, fun, nit, first_fun, predicted, last_fun, opt_result, fitted_params, printed>>
    /\ UNCHANGED <<call_vars, thread_vars, tool_vars>>

\* objective_function returns the total error; the optimizer moves to the
\* trial vector if the value is smaller than at its iterate
FitObjective ==
    /\ fit_pc = "objective"
    /\ \E total \in {objective_function(aircraft_data, predicted)} :
           /\ last_fun' = total
           /\ first_fun' = IF fun = None THEN total ELSE first_fun
           /\ nit' = IF fun = None THEN 0 ELSE nit + 1
           /\ x' = IF fun = None \/ FLt(total, fun) THEN trial ELSE x
           /\ fun' = IF fun = None \/ FLt(total, fun) THEN total ELSE fun
    /\ fit_pc' = "optimizing"
    /\ UNCHANGED <<shared_default, base_params, aircraft_data, trial, new_params, predicted, opt_result, fitted_params, printed>>
    /\ UNCHANGED <<call_vars, thread_vars, tool_vars>>

\* minimize returns: converged, or stopped at the iteration cap
FitStop ==
    /\ fit_pc = "optimizing"
    /\ fun # None
    /\ opt_result' = [x |-> x, fun |-> fun, nit |-> nit, success |-> nit < MaxIter]
    /\ fit_pc' = "finished"
    /\ UNCHANGED <<shared_default, base_params, aircraft_data, x, fun, nit, first_fun, trial, new_params, predicted, last_fun, fitted_params, printed>>
    /\ UNCHANGED <<call_vars, thread_vars, tool_vars>>

\* the script prints the result and builds the fitted parameters from
\* result.x
FitFitted ==
    /\ fit_pc = "finished"
    /\ printed' = PrintedResult(opt_result)
    /\ \E built \in {Build(base_params, dict_zip(params_in_order, opt_result.x))} :
           /\ shared_default' = built.shared_default
           /\ base_params' = built.base_params
           /\ fitted_params' = built.new_params
    /\ fit_pc' = "call_final"
    /\ UNCHANGED <<aircraft_data, x, fun, nit, first_fun, trial, new_params, predicted, last_fun, opt_result>>
    /\ UNCHANGED <<call_vars, thread_vars, tool_vars>>

\* the rest of the final loop, and the parameter table
FitReport ==
    /\ fit_pc = "final"
    /\ \E rows \in {[i \in DOMAIN aircraft_data |-> FinalRow(aircraft_data[i], predicted[i])]} :
           IF IsExc(Body(<<RaisedIn(rows), ParameterTable(base_params, fitted_params)>>, None))
           THEN /\ fit_pc' = "raised"
                /\ UNCHANGED aircraft_data
           ELSE /\ fit_pc' = "reported"
                /\ aircraft_data' = rows
    /\ UNCHANGED <<shared_default, base_params, x, fun, nit, first_fun, trial, new_params, predicted, last_fun, opt_result, fitted_params, printed>>
    /\ UNCHANGED <<call_vars, thread_vars, tool_vars>>

NextFit == FitSetup \/ FitCalculate \/ FitBaseline \/ FitBuild \/ FitObjective \/ FitStop \/ FitFitted \/ FitReport

SpecFit == Init /\ [][NextFit]_vars

\* ------------------------------------------------------------------------
\* State machine: a caller resolves the delivery price by the closed form
\* and then computes airframe, spares and purchase price from it
\* ------------------------------------------------------------------------

\* the inputs of the closed form: weights on both sides of 10000 kg, engine
\* prices, engine counts and spares factors; an airframe spares factor of -1
\* makes the denominator zero
SolveOptions ==
    [operational_empty_weight_kg : {FInt(5000), FInt(10000), F(1250, 1), FInt(40000)},
     engine_price_usd : {F(2, 6), F(9, 6)},
     engine_count : {1, 2, 4},
     airframe_spares_factor : {Zero, F(1, -1), F(25, -2), FInt(-1)},
     engine_spares_factor : {F(3, -1), F(5, -1)}]

SolveInputs ==
    /\ solve_pc = "start"
    /\ \E i \in SolveOptions : solve_in' = i
    /\ solve_pc' = "inputs"
    /\ UNCHANGED <<solve_delivery, solve_airframe, solve_spares, solve_purchase>>
    /\ UNCHANGED <<call_vars, thread_vars, fit_vars, sens_vars>>

\* D = calculate_delivery_price_from_oew(...), or its ZeroDivisionError
SolveDelivery ==
    /\ solve_pc = "inputs"
    /\ \E d \in {calculate_delivery_price_from_oew(solve_in.operational_empty_weight_kg, solve_in.engine_price_usd, solve_in.engine_count, solve_in.airframe_spares_factor, solve_in.engine_spares_factor)} :
           IF IsExc(d)
           THEN /\ solve_pc' = "raised"
                /\ UNCHANGED solve_delivery
           ELSE /\ solve_pc' = "delivery"
                /\ solve_delivery' = d
    /\ UNCHANGED <<solve_in, solve_airframe, solve_spares, solve_purchase>>
    /\ UNCHANGED <<call_vars, thread_vars, fit_vars, sens_vars>>

SolveAirframe ==
    /\ solve_pc = "delivery"
    /\ solve_airframe' = calculate_airframe_price(solve_delivery, solve_in.engine_price_usd, solve_in.engine_count)
    /\ solve_pc' = "airframe"
    /\ UNCHANGED <<solve_in, solve_delivery, solve_spares, solve_purchase>>
    /\ UNCHANGED <<call_vars, thread_vars, fit_vars, sens_vars>>

SolveSpares ==
    /\ solve_pc = "airframe"
    /\ solve_spares' = calculate_spares_price(solve_in.engine_price_usd, solve_in.engine_count, solve_airframe, solve_in.airframe_spares_factor, solve_in.engine_spares_factor)
    /\ solve_pc' = "spares"
    /\ UNCHANGED <<solve_in, solve_delivery, solve_airframe, solve_purchase>>
    /\ UNCHANGED <<call_vars, thread_vars, fit_vars, sens_vars>>

SolvePurchase ==
    /\ solve_pc = "spares"
    /\ solve_purchase' = calculate_purchase_price(solve_delivery, solve_spares)
    /\ solve_pc' = "done"
    /\ UNCHANGED <<solve_in, solve_delivery, solve_airframe, solve_spares>>
    /\ UNCHANGED <<call_vars, thread_vars, fit_vars, sens_vars>>

NextSolve == SolveInputs \/ SolveDelivery \/ SolveAirframe \/ SolveSpares \/ SolvePurchase

SpecSolve == Init /\ [][NextSolve]_vars

\* ------------------------------------------------------------------------
\* State machine: one call of sensitivity_analysis
\* ------------------------------------------------------------------------

\* the call is entered with its three arguments
SensEnter ==
    /\ sens_pc = "start"
    /\ \E i \in SensOptions :
           /\ sens_in' = i
           /\ sens_base_params' = i.base_params
    /\ sens_pc' = "call_base"
    /\ UNCHANGED <<sens_error, base_cost, results, field_i, param_results, frac_i, sens_new_params, new_cost, df>>
    /\ UNCHANGED <<call_vars, thread_vars, fit_vars, solve_vars>>

\* calculate_maintenance_only: for the base cost, or for the cost of the
\* perturbed parameters
SensCalculate ==
    /\ sens_pc \in {"call_base", "call_new"}
    /\ \E cost \in {calculate_maintenance_only(sens_in.aircraft, IF sens_pc = "call_base" THEN sens_base_params ELSE sens_new_params)} :
           IF IsExc(cost)
           THEN /\ sens_pc' = "raised"
                /\ sens_error' = cost.exc
                /\ UNCHANGED <<base_cost, new_cost>>
           ELSE /\ sens_pc' = IF sens_pc = "call_base" THEN "fields" ELSE "record"
                /\ base_cost' = IF sens_pc = "call_base" THEN cost ELSE base_cost
                /\ new_cost' = IF sens_pc = "call_base" THEN new_cost ELSE cost
                /\ UNCHANGED sens_error
    /\ UNCHANGED <<sens_in, sens_base_params, results, field_i, param_results, frac_i, sens_new_params, df>>
    /\ UNCHANGED <<call_vars, thread_vars, fit_vars, solve_vars>>

\* the next field has a base value of zero: continue
SensSkipField ==
    /\ sens_pc = "fields"
    /\ field_i < Len(maint_fields)
    /\ FIsZero(sens_base_params.maintenance[maint_fields[field_i + 1]])
    /\ field_i' = field_i + 1
    /\ UNCHANGED <<sens_pc, sens_error, sens_in, sens_base_params, base_cost, results, param_results, frac_i, sens_new_params, new_cost, df>>
    /\ UNCHANGED <<call_vars, thread_vars, fit_vars, solve_vars>>

\* the next field has a base value other than zero: param_results is begun
SensTakeField ==
    /\ sens_pc = "fields"
    /\ field_i < Len(maint_fields)
    /\ ~FIsZero(sens_base_params.maintenance[maint_fields[field_i + 1]])
    /\ field_i' = field_i + 1
    /\ param_results' = [parameter |-> maint_fields[field_i + 1],
                         base_value |-> sens_base_params.maintenance[maint_fields[field_i + 1]],
                         base_cost |-> base_cost,
                         by_pct |-> << >>]
    /\ frac_i' = 0
    /\ sens_pc' = "fracs"
    /\ UNCHANGED <<sens_error, sens_in, sens_base_params, base_cost, results, sens_new_params, new_cost, df>>
    /\ UNCHANGED <<call_vars, thread_vars, fit_vars, solve_vars>>

\* the perturbed parameter set of the next fraction is built
SensPerturb ==
    /\ sens_pc = "fracs"
    /\ frac_i < Len(sens_in.perturbation_fractions)
    /\ \E built \in {Perturbed(sens_base_params, param_results.parameter, sens_in.perturbation_fractions[frac_i + 1])} :
           /\ sens_base_params' = built.base_params
           /\ sens_new_params' = built.new_params
    /\ sens_pc' = "call_new"
    /\ UNCHANGED <<sens_error, sens_in, base_cost, results, field_i, param_results, frac_i, new_cost, df>>
    /\ UNCHANGED <<call_vars, thread_vars, fit_vars, solve_vars>>

\* the cost and the changes of the fraction are stored under its key
SensRecord ==
    /\ sens_pc = "record"
    /\ param_results' = [param_results EXCEPT !.by_pct = Put(@, PctKey(sens_in.perturbation_fractions[frac_i + 1]), PctRecords(new_cost, base_cost))]
    /\ frac_i' = frac_i + 1
    /\ sens_pc' = "fracs"
    /\ UNCHANGED <<sens_error, sens_in, sens_base_params, base_cost, results, field_i, sens_new_params, new_cost, df>>
    /\ UNCHANGED <<call_vars, thread_vars, fit_vars, solve_vars>>

\* the second loop over the fractions, the two scores, and the append
SensScore ==
    /\ sens_pc = "fracs"
    /\ frac_i = Len(sens_in.perturbation_fractions)
    /\ \E scores \in {[i \in DOMAIN sens_in.perturbation_fractions |-> sensitivity(param_results, sens_in.perturbation_fractions[i])]} :
           IF IsExc(np_mean(scores))
           THEN /\ sens_pc' = "raised"
                /\ sens_error' = np_mean(scores).exc
                /\ UNCHANGED results
           ELSE /\ sens_pc' = "fields"
                /\ results' = Append(results, ScoredRow(param_results, scores))
                /\ UNCHANGED sens_error
    /\ UNCHANGED <<sens_in, sens_base_params, base_cost, field_i, param_results, frac_i, sens_new_params, new_cost, df>>
    /\ UNCHANGED <<call_vars, thread_vars, fit_vars, solve_vars>>

\* the DataFrame of results is sorted and returned; a DataFrame of no rows
\* has no column 'sensitivity' to sort by
SensSort ==
    /\ sens_pc = "fields"
    /\ field_i = Len(maint_fields)
    /\ IF results = << >>
       THEN /\ sens_pc' = "raised"
            /\ sens_error' = "KeyError"
            /\ UNCHANGED df
       ELSE /\ sens_pc' = "returned"
            /\ df' = sort_values(results)
            /\ UNCHANGED sens_error
    /\ UNCHANGED <<sens_in, sens_base_params, base_cost, results, field_i, param_results, frac_i, sens_new_params, new_cost>>
    /\ UNCHANGED <<call_vars, thread_vars, fit_vars, solve_vars>>

NextSens ==
    SensEnter \/ SensCalculate \/ SensSkipField \/ SensTakeField \/ SensPerturb \/ SensRecord \/ SensScore \/ SensSort

SpecSens == Init /\ [][NextSens]_vars

\* ------------------------------------------------------------------------
\* What the call saw and gave
\* ------------------------------------------------------------------------

Returned == pc = "returned"

RaisedWith(kind) == pc = "raised" /\ error = kind

Bases == {"annual", "per_flight", "per_hour"}

Fields == {"depreciation", "interest", "insurance", "fuel", "maintenance", "crew", "fees_and_charges", "total"}

\* the seven components of a breakdown added left to right
SumOfComponents(b) ==
    FAdd(FAdd(FAdd(FAdd(FAdd(FAdd(b.depreciation, b.interest), b.insurance), b.fuel), b.maintenance), b.crew), b.fees_and_charges)

\* the largest decimal exponent among the seven components of a breakdown
MaxExponent(b) ==
    CHOOSE e \in {b[f].e : f \in Fields \ {"total"}} : \A f \in Fields \ {"total"} : b[f].e <= e

\* a and b differ by at most n units of 10^e
WithinUnits(a, b, n, e) == FLe(FAbs(FSub(a, b)), F(n, e))

\* a is b within the relative tolerance 0.003: a few roundings of the
\* four-digit arithmetic, each of relative size at most 0.0005
Close(a, b) == FLe(FAbs(FSub(a, b)), FMul(FAbs(b), F(3, -3)))

\* phase 0 of the call on the current inputs
InflationFactorNow == calculate_inflation_factor(params.inflation_rate, target_year, GeneralReferenceYear)

\* phase 2 of the call on the current inputs
AirframeWeightNow ==
    calculate_airframe_weight(aircraft.operational_empty_weight_kg,
        calculate_installed_engine_weight(params.installed_engine_factor, params.installed_engine_reverse_factor,
                                          aircraft.engine_weight_kg, aircraft.engine_count))

\* the maintenance call of phase 4 on the current inputs, for an airframe price
MaintenanceWith(airframe_price_usd) ==
    calculate_maintenance(aircraft.flight_time_hours, AirframeWeightNow, airframe_price_usd,
                          aircraft.bypass_ratio, aircraft.overall_pressure_ratio,
                          aircraft.compressor_stages, aircraft.engine_shafts,
                          aircraft.takeoff_thrust_per_engine_N, aircraft.engine_count,
                          aircraft.flights_per_year,
                          FMul(params.labor_rate_usd_per_hour, InflationFactorNow), InflationFactorNow)

\* the same call with the maintenance formula reading its coefficients from c
MaintenanceFormulaWith(c, airframe_price_usd) ==
    MaintenanceFormula(c, aircraft.flight_time_hours, AirframeWeightNow, airframe_price_usd,
                       aircraft.bypass_ratio, aircraft.overall_pressure_ratio,
                       aircraft.compressor_stages, aircraft.engine_shafts,
                       aircraft.takeoff_thrust_per_engine_N, aircraft.engine_count,
                       aircraft.flights_per_year,
                       FMul(params.labor_rate_usd_per_hour, InflationFactorNow), InflationFactorNow)

EnginePriceSupplied == ~IsNone(aircraft.engine_price_usd)

DeliveryPriceSupplied == ~IsNone(aircraft.aircraft_delivery_price_usd)

\* ------------------------------------------------------------------------
\* C1..C3
\* ------------------------------------------------------------------------

\* C1 (as stated): in every returned DOCResult, in each of the three bases,
\* total equals the sum of that breakdown's seven components.
C1_TotalIsSumInEveryBasis ==
    Returned => \A basis \in Bases : result[basis].total = SumOfComponents(result[basis])

\* C1 (amended): the annual total equals the sum of the seven annual
\* components; the per-flight and per-hour totals are the annual total divided
\* by the basis divisor, and agree with the sum of their own seven components
\* up to the rounding of seven divisions and six additions: forty units in the
\* last place of the largest component.
C1_TotalIsSumUpToRounding ==
    Returned =>
        /\ result.annual.total = SumOfComponents(result.annual)
        /\ result.per_flight.total = FDiv(result.annual.total, FInt(aircraft.flights_per_year))
        /\ result.per_hour.total =
               FDiv(result.annual.total, FMul(FInt(aircraft.flights_per_year), aircraft.flight_time_hours))
        /\ \A basis \in {"per_flight", "per_hour"} :
               WithinUnits(result[basis].total, SumOfComponents(result[basis]), 4, MaxExponent(result[basis]) + 1)

\* a result whose per-flight total is not the sum of its per-flight components
C1_Witness ==
    /\ Returned
    /\ aircraft.flights_per_year = 1200
    /\ result.annual.total = SumOfComponents(result.annual)
    /\ result.per_flight.total # SumOfComponents(result.per_flight)

\* C2: for flights_per_year > 0 and flight_time_hours > 0, every field of the
\* per-flight breakdown times flights_per_year, and every field of the per-hour
\* breakdown times flights_per_year times flight_time_hours, gives the annual
\* field back within tolerance (relative 0.003, a few roundings).
C2_NormalizationRoundTrip ==
    (Returned /\ aircraft.flights_per_year > 0 /\ FLt(Zero, aircraft.flight_time_hours)) =>
        \A f \in Fields :
            /\ Close(FMul(result.per_flight[f], FInt(aircraft.flights_per_year)), result.annual[f])
            /\ Close(FMul(FMul(result.per_hour[f], FInt(aircraft.flights_per_year)), aircraft.flight_time_hours),
                     result.annual[f])

\* a result for 1200 flights a year, whose per-flight and per-hour values differ
\* from the annual ones
C2_Witness ==
    /\ Returned
    /\ aircraft.flights_per_year = 1200
    /\ FLt(Zero, aircraft.flight_time_hours)
    /\ \A f \in Fields : result.per_flight[f] # result.annual[f] /\ result.per_hour[f] # result.per_flight[f]

\* C3 (as stated): whenever engine_shafts is not 1, 2 or 3 the call ends with
\* the ValueError of the shaft match and returns no result, whatever the other
\* inputs are.
C3_InvalidShaftsAlwaysValueError ==
    (pc # "setup" /\ aircraft.engine_shafts \notin {1, 2, 3}) => RaisedWith("ValueError")

\* ------------------------------------------------------------------------
\* C4..C6
\* ------------------------------------------------------------------------

\* C4 (as stated): every coefficient of the maintenance formula is taken from
\* the coefficient set passed with the MethodParameters, so the maintenance
\* cost of a result is the formula evaluated with params.maintenance.
C4_CoefficientsTakenFromParams ==
    Returned =>
        result.annual.maintenance = MaintenanceFormulaWith(params.maintenance, result.prices.airframe_price_usd)

\* C5 (as stated): the call reports an error, and returns no DOCResult,
\* whenever flights_per_year <= 0 or flights_per_year x flight_time_hours <= 0.
C5_NonPositiveUtilisationIsAnError ==
    (/\ pc # "setup"
     /\ \/ aircraft.flights_per_year <= 0
        \/ FLe(FMul(FInt(aircraft.flights_per_year), aircraft.flight_time_hours), Zero))
    => pc = "raised"

\* C6 (as stated): apart from the invalid-shaft-count error no cost-category
\* function raises; degenerate inputs give a result, not an exception.  With
\* flights_per_year > 0 and flight_time_hours > 0 the normalisations of phase 5
\* divide by non-zero values, so an exception then comes from a cost category.
C6_OnlyTheShaftErrorIsRaised ==
    (/\ pc = "raised"
     /\ aircraft.flights_per_year > 0
     /\ FLt(Zero, aircraft.flight_time_hours))
    => (error = "ValueError" /\ aircraft.engine_shafts \notin {1, 2, 3})

\* ------------------------------------------------------------------------
\* C7..C10
\* ------------------------------------------------------------------------

\* C7: in every returned PricingBreakdown the purchase price is the delivery
\* price plus the spares price, whether the engine price and the delivery price
\* were supplied or estimated.
C7_PurchaseIsDeliveryPlusSpares ==
    Returned =>
        result.prices.purchase_price_usd =
            FAdd(result.prices.delivery_price_usd, result.prices.spares_price_usd)

\* a result priced from a supplied engine price and an estimated delivery price,
\* with spares to add
C7_Witness ==
    /\ Returned
    /\ EnginePriceSupplied
    /\ ~DeliveryPriceSupplied
    /\ ~FIsZero(result.prices.spares_price_usd)

\* C8: in every returned PricingBreakdown the airframe price is the delivery
\* price minus engine_count times the engine price, negative when the engines
\* cost more than the aircraft, and that same value is the one the spares
\* price and the maintenance cost were computed from.
C8_AirframePriceUnclamped ==
    Returned =>
        /\ result.prices.airframe_price_usd =
               FSub(result.prices.delivery_price_usd,
                    FMul(FInt(aircraft.engine_count), result.prices.engine_price_usd))
        /\ result.prices.spares_price_usd =
               calculate_spares_price(result.prices.engine_price_usd, aircraft.engine_count,
                                      result.prices.airframe_price_usd,
                                      params.airframe_spares_factor, params.engine_spares_factor)
        /\ result.annual.maintenance = MaintenanceWith(result.prices.airframe_price_usd)

\* a result whose engines cost more than the delivery price
C8_Witness ==
    /\ Returned
    /\ FLt(result.prices.delivery_price_usd,
           FMul(FInt(aircraft.engine_count), result.prices.engine_price_usd))
    /\ FIsNeg(result.prices.airframe_price_usd)

\* C9 (as stated): all five prices of every returned PricingBreakdown are
\* non-negative.
C9_AllPricesNonNegative ==
    Returned =>
        \A f \in DOMAIN result.prices : ~FIsNeg(result.prices[f])

\* C9 (amended): the five prices are non-negative when the resolved engine
\* price is non-negative, the delivery price is at least engine_count times
\* the engine price, and the spares factors are non-negative.
C9_PricesNonNegativeWhenConsistent ==
    (/\ Returned
     /\ ~FIsNeg(result.prices.engine_price_usd)
     /\ FLe(FMul(FInt(aircraft.engine_count), result.prices.engine_price_usd), result.prices.delivery_price_usd)
     /\ ~FIsNeg(params.airframe_spares_factor)
     /\ ~FIsNeg(params.engine_spares_factor))
    => \A f \in DOMAIN result.prices : ~FIsNeg(result.prices[f])

\* a result for consistent supplied prices: two engines of 2e6 in an aircraft
\* of 15e6
C9_Witness ==
    /\ Returned
    /\ EnginePriceSupplied
    /\ DeliveryPriceSupplied
    /\ FLe(FMul(FInt(aircraft.engine_count), result.prices.engine_price_usd), result.prices.delivery_price_usd)
    /\ FLt(Zero, result.prices.spares_price_usd)

\* C10: a supplied engine price is the resolved engine price as it is, for
\* every target year and inflation rate; otherwise the resolved engine price
\* is 293 x thrust^0.81 times (1 + inflation_rate)^(target_year - 1999).
C10_EnginePriceResolution ==
    Returned =>
        result.prices.engine_price_usd =
            IF EnginePriceSupplied
            THEN aircraft.engine_price_usd
            ELSE FMul(FMul(FInt(293), FPow(aircraft.takeoff_thrust_per_engine_N, F(81, -2))),
                      FPowInt(FAdd(One, params.inflation_rate), target_year - 1999))

\* a result for a supplied engine price with the target year and the inflation
\* rate both changed from their defaults
C10_Witness ==
    /\ Returned
    /\ EnginePriceSupplied
    /\ target_year # DefaultTargetYear
    /\ params.inflation_rate # DefaultParams.inflation_rate

\* C11: a supplied delivery price is the resolved delivery price as it is, for
\* every target year; otherwise the resolved delivery price is 860 x OEW times
\* (1 + inflation_rate)^(target_year - reference year of the correlation).
\* Neither case reads the engine price or the spares factors.
C11_DeliveryPriceResolution ==
    Returned =>
        result.prices.delivery_price_usd =
            IF DeliveryPriceSupplied
            THEN aircraft.aircraft_delivery_price_usd
            ELSE FMul(FMul(FInt(860), aircraft.operational_empty_weight_kg),
                      FPowInt(FAdd(One, params.inflation_rate), target_year - DeliveryReferenceYear))

\* a result for an estimated delivery price with a supplied engine price and
\* the engine spares factor changed from its default
C11_Witness ==
    /\ Returned
    /\ ~DeliveryPriceSupplied
    /\ EnginePriceSupplied
    /\ params.engine_spares_factor # DefaultParams.engine_spares_factor

\* C12: a delivery price estimated from OEW is the 860 USD/kg value inflated
\* from the documented baseline year 2010 to the target year.
C12_DeliveryEstimateInflatedFrom2010 ==
    (Returned /\ ~DeliveryPriceSupplied) =>
        result.prices.delivery_price_usd =
            FMul(FMul(FInt(DeliveryPricePerKg), aircraft.operational_empty_weight_kg),
                 calculate_inflation_factor(params.inflation_rate, target_year, DocumentedDeliveryBaselineYear))

C14_ArgumentsUnchanged ==
    [][(pc = "setup" /\ pc' # "setup") => (aircraft' = aircraft /\ params' = params)]_vars

\* a call that raised on an aircraft with an estimated engine price and
\* parameters changed from the defaults
C14_Witness ==
    /\ pc = "raised"
    /\ ~EnginePriceSupplied
    /\ params # DefaultParams

\* C15: whatever the interleaving of the threads, an invocation that ends has
\* the outcome calculate_costs has on its inputs when it runs alone.
C15_InterleavingHasNoEffect ==
    \A t \in Threads :
        frames[t].pc \in {"returned", "raised"} =>
            frames[t].outcome = calculate_costs(frames[t].given.aircraft, frames[t].given.params,
                                                frames[t].given.target_year)

\* thread 1 has returned while thread 2, called on other inputs, is between
\* its pricing and its weights
C15_Witness ==
    /\ frames[1].pc = "returned"
    /\ frames[2].pc = "priced"
    /\ frames[1].given # frames[2].given

\* the errors of the last objective evaluation: predicted per-flight
\* maintenance less target, by entry of aircraft_data
LastErrors ==
    [i \in DOMAIN aircraft_data |->
        FSub(predicted_cost(aircraft_data[i].aircraft, new_params), aircraft_data[i].target)]

RECURSIVE SumOfSquares(_, _)
SumOfSquares(errs, n) ==
    IF n = 0 THEN Zero ELSE FAdd(SumOfSquares(errs, n - 1), FSquare(errs[n]))

HoldsTheRest(built) ==
    /\ \A f \in DOMAIN built.maintenance \ params_to_fit :
           built.maintenance[f] = BaseParamsAtStart.maintenance[f]
    /\ \A g \in DOMAIN built \ {"maintenance"} : built[g] = BaseParamsAtStart[g]

RoundTrip ==
    /\ Len(aircraft_data) = 1
    /\ aircraft_data[1].baseline # None
    /\ aircraft_data[1].target = aircraft_data[1].baseline

VariableCategories == {"fuel", "maintenance", "crew", "fees_and_charges"}

\* the flights a year the call is compared under
FlightsPerYearOptions == {-2, 1, 7, 1200}

\* the call on the current inputs with another number of flights a year
CallWithFlights(n) == calculate_costs([aircraft EXCEPT !.flights_per_year = n], params, target_year)

\* C26 (as stated): a returned result has, in fuel, maintenance, crew and
\* fees, exactly the per-flight values of the call on the same inputs with any
\* other nonzero flights_per_year.
C26_PerFlightEqualForAnyFlights ==
    Returned =>
        \A n \in FlightsPerYearOptions : \A f \in VariableCategories :
            CallWithFlights(n).per_flight[f] = result.per_flight[f]

\* C26 (amended): the per-flight values of the four variable categories
\* agree, within the rounding of the multiplication by flights_per_year and
\* the division by it, with those of the call on the same inputs with any
\* other nonzero flights_per_year; and the annual maintenance is the annual
\* maintenance of one flight a year (the per-flight expression x
\* flight_time_hours) multiplied by flights_per_year.
C26_PerFlightIndependentOfFlights ==
    Returned =>
        /\ \A n \in FlightsPerYearOptions : \A f \in VariableCategories :
               Close(CallWithFlights(n).per_flight[f], result.per_flight[f])
        /\ result.annual.maintenance =
               FMul(CallWithFlights(1).annual.maintenance, FInt(aircraft.flights_per_year))

\* a result for 1200 flights a year
C26_Witness ==
    /\ Returned
    /\ aircraft.flights_per_year = 1200
    /\ ~FIsZero(result.per_flight.fuel)

\* C27: a returned result has engine_shafts in {1, 2, 3} and its maintenance
\* cost is the formula with k4 = 0.5, 0.57 or 0.64 by shaft count and
\* k3 = 0.032 x compressor_stages + k4; for any other shaft count the call
\* returns nothing, so no k4 is made up.
C27_ShaftFactorByShaftCountOnly ==
    /\ Returned =>
           /\ aircraft.engine_shafts \in {1, 2, 3}
           /\ result.annual.maintenance =
                  MaintenanceFormulaWith(CodeCoefficients, result.prices.airframe_price_usd)
    /\ (pc # "setup" /\ aircraft.engine_shafts \notin {1, 2, 3}) => pc = "raised"

\* a result for a triple-shaft engine
C27_Witness ==
    /\ Returned
    /\ aircraft.engine_shafts = 3

\* the coefficient set with the engine base coefficients of the docstring
DocumentedEngineCoefficients ==
    [CodeCoefficients EXCEPT !.engine_labor_base_coefficient = F(21, -2),
                             !.engine_material_base_coefficient = F(256, -2)]

\* C28 (as stated): the maintenance cost of a returned result is the formula
\* with the engine labor hours led by 0.21 and the engine material cost led
\* by 2.56, as the docstring of calculate_maintenance gives them.
C28_EngineTermsAsDocumented ==
    Returned =>
        result.annual.maintenance =
            MaintenanceFormulaWith(DocumentedEngineCoefficients, result.prices.airframe_price_usd)

\* ------------------------------------------------------------------------
\* C25
\* ------------------------------------------------------------------------

\* the purchase price the closed form was solved from
SolveTarget == estimate_purchase_price_from_oew(solve_in.operational_empty_weight_kg)

\* the largest magnitude among the prices of the round trip
SolveScale ==
    CHOOSE a \in {FAbs(SolveTarget), FAbs(solve_delivery), FAbs(solve_spares)} :
        \A b \in {FAbs(SolveTarget), FAbs(solve_delivery), FAbs(solve_spares)} : FLe(b, a)

\* C25 (as stated): the purchase price computed from the closed-form delivery
\* price is the estimate_purchase_price_from_oew value it was solved from.
C25_RoundTripExact ==
    solve_pc = "done" => solve_purchase = SolveTarget

\* C25 (amended): one application of the closed form, followed by the
\* airframe, spares and purchase price functions, gives back the
\* estimate_purchase_price_from_oew value up to the rounding of the
\* operations in between, relative to the largest price involved.
C25_RoundTripUpToRounding ==
    solve_pc = "done" =>
        FLe(FAbs(FSub(solve_purchase, SolveTarget)), FMul(SolveScale, F(3, -3)))

\* a round trip through with engines and both spares factors positive
C25_Witness ==
    /\ solve_pc = "done"
    /\ solve_in.engine_count = 2
    /\ solve_in.airframe_spares_factor = F(1, -1)
    /\ solve_in.operational_empty_weight_kg = F(1250, 1)

\* ------------------------------------------------------------------------
\* C29
\* ------------------------------------------------------------------------

\* every varied field of a parameter set is inside the bound of its own
\* position in the lists
InOwnBox(built) ==
    \A i \in DOMAIN params_in_order :
        /\ FLe(bounds[i][1], built.maintenance[params_in_order[i]])
        /\ FLe(built.maintenance[params_in_order[i]], bounds[i][2])

SensReturned == sens_pc = "returned"

\* the fields whose base value is zero, resp. is not, in the arguments
ZeroBaseFields ==
    {maint_fields[i] : i \in {j \in DOMAIN maint_fields : FIsZero(sens_in.base_params.maintenance[maint_fields[j]])}}

NonZeroBaseFields == {maint_fields[i] : i \in DOMAIN maint_fields} \ ZeroBaseFields

\* the fields that have a row in the returned table
RankedFields == {df[r].parameter : r \in DOMAIN df}

\* C21 (as stated): in what sensitivity_analysis returns, no field with a zero
\* base value has a row, and every such field is in the set the output
\* reports as excluded.
C21_ZeroBaseFieldsReportedExcluded ==
    SensReturned =>
        \A f \in ZeroBaseFields : f \notin RankedFields /\ f \in ReportedExcluded(df)

\* the relative cost change in % of a row at a fraction, from the cost the
\* row records for the fraction and the base cost
RelativeChangeAt(row, frac) ==
    FMul(FSub(FDiv(row.by_pct[PctKey(frac)].cost, row.base_cost), One), FInt(100))

\* the terms of a row's score, one for each fraction
ScoreTerms(row) ==
    [i \in DOMAIN sens_in.perturbation_fractions |->
        FMul(FDiv(FAbs(RelativeChangeAt(row, sens_in.perturbation_fractions[i])),
                  FAbs(FMul(sens_in.perturbation_fractions[i], FInt(100)))),
             FInt(10))]

RECURSIVE TermsAdded(_, _)
TermsAdded(terms, n) ==
    IF n = 0 THEN Zero ELSE FAdd(TermsAdded(terms, n - 1), terms[n])

DistinctFractions ==
    \A i, j \in DOMAIN sens_in.perturbation_fractions :
        i # j => sens_in.perturbation_fractions[i] # sens_in.perturbation_fractions[j]

\* C30 (as stated): when the fractions are pairwise distinct, so are the
\* keys int(frac*100) their records are stored under, and every row of the
\* returned table holds the records of every fraction.
C30_EveryFractionKeepsItsRecords ==
    (SensReturned /\ DistinctFractions) =>
        /\ \A i, j \in DOMAIN sens_in.perturbation_fractions :
               i # j => PctKey(sens_in.perturbation_fractions[i]) # PctKey(sens_in.perturbation_fractions[j])
        /\ \A r \in DOMAIN df :
               Cardinality(DOMAIN df[r].by_pct) = Len(sens_in.perturbation_fractions)
====
